---- MODULE Spec2Model ----
(***************************************************************************)
(* Jetpack game server (GameServer, Physics, Broadcaster) as a state       *)
(* machine.  One action per event handler of GameServer::start's loop:     *)
(* each loop iteration polls once, walks m_pollfds in index order          *)
(* (handleSocketEvents) and then runs updateGameState.                     *)
(*                                                                         *)
(* Floating point coordinates and velocities are kept in thousandths of a  *)
(* world unit (exact decimal arithmetic instead of binary float rounding). *)
(* Vectors are functions over 0..n-1; the unordered player table is the    *)
(* sequence of its elements in iteration order.                            *)
(***************************************************************************)
EXTENDS Integers, Sequences, FiniteSets, TLC

(* ---------------------------- bounds ----------------------------------- *)
\* connections accepted in one session after its match has started
MaxExtra == 1
\* PLAYER_INPUT packets that change a jetpack flag, over one run
MaxInputs == 1

(* ------------------------ program constants ---------------------------- *)
MAX_CLIENTS == 2
MIN_PLAYERS == 2
\* thousandths per world unit (resolution chosen for the float fields)
Unit == 1000
GRAVITY == 8
JETPACK_FORCE == 13
MAX_VELOCITY == 50
HORIZONTAL_SPEED == 50
\* descriptor of the listening socket
m_serverSocket == 0

\* PacketType tags
CONNECT_REQUEST == 1
CONNECT_RESPONSE == 2
MAP_DATA == 3
GAME_START == 4
PLAYER_INPUT == 5
GAME_STATE_UPDATE == 6
COIN_COLLECTED == 8
PLAYER_DEATH == 9
GAME_OVER == 10
PLAYER_DISCONNECT == 11
PLAYER_POSITION == 7

\* TileType
EMPTY == 0
COIN == 1
ELECTRICSQUARE == 2

\* CoinState
AVAILABLE == 0
COLLECTED_P1 == 1
COLLECTED_P2 == 2
COLLECTED_BOTH == 3

\* PlayerState
CONNECTED == 0
READY == 1
PLAYING == 2
DEAD == 3
FINISHED == 4

\* GameState
WAITING_FOR_PLAYERS == 0
IN_PROGRESS == 1
GAME_OVER_STATE == 2

(* ------------------------------ helpers -------------------------------- *)
\* static_cast<uint8_t>
U8(n) == n % 256

\* static_cast<uint16_t>
U16(n) == n % 65536

\* static_cast<int>(float): truncation toward zero of a value in thousandths
ToInt(v) == IF v >= 0 THEN v \div Unit ELSE -((-v) \div Unit)

\* F applied to the value of x (x is evaluated once, before F uses it)
Bind(x, F(_)) == CHOOSE r \in {F(v) : v \in {x}} : TRUE

\* std::vector of n copies of v
Vec(n, v) == [i \in 0..(n - 1) |-> v]

\* std::vector::resize(n, v): keeps the elements it has, appends copies of v
Resize(old, n, v) ==
  [i \in 0..(n - 1) |-> IF i \in DOMAIN old THEN old[i] ELSE v]

\* the sequence s without its k-th element
RemoveAt(s, k) == [i \in 1..(Len(s) - 1) |-> IF i < k THEN s[i] ELSE s[i + 1]]

\* the sequence s with e placed at position k
InsertAt(s, k, e) ==
  [i \in 1..(Len(s) + 1) |-> IF i < k THEN s[i] ELSE IF i = k THEN e ELSE s[i - 1]]

\* m_players.find(clientSocket): position in the table, 0 for end()
FindSock(players, sock) ==
  IF \E i \in 1..Len(players) : players[i].sock = sock
  THEN CHOOSE i \in 1..Len(players) : players[i].sock = sock
  ELSE 0

PlayerSocks(players) == {players[i].sock : i \in 1..Len(players)}

(* ------------------------------ map file ------------------------------- *)
\* Contents of the map file: one tuple of characters per line.
\* Players start in column 1 of the row above the last one.
MapTwoCoins == << <<"_", "c">>, <<>>, <<"_", "c">>, <<"x", "_">> >>
MapZapAtSpawn == << <<"_", "c">>, <<"_", "e">>, <<"_", "_">> >>
MapFiles == {MapTwoCoins, MapZapAtSpawn}

EmptyMap == [width |-> 0, height |-> 0, tiles |-> <<>>, coinStates |-> <<>>]

\* lines of the file that are not empty, as a vector
RECURSIVE NonEmptyLines(_)
NonEmptyLines(file) ==
  IF file = <<>> THEN <<>>
  ELSE IF Head(file) = <<>> THEN NonEmptyLines(Tail(file))
  ELSE <<Head(file)>> \o NonEmptyLines(Tail(file))

TileOfChar(c) ==
  CASE c = "_" -> EMPTY
    [] c = "c" -> COIN
    [] c = "e" -> ELECTRICSQUARE
    [] OTHER -> EMPTY

\* GameServer::loadMap on the map held so far: [ok, map]
loadMap(file, map) ==
  LET lines == NonEmptyLines(file)
      h == Len(lines)
      w == IF h = 0 THEN 0 ELSE Len(lines[1])
  IN  IF h = 0 THEN [ok |-> FALSE, map |-> map]
      ELSE IF \E i \in 1..h : Len(lines[i]) # w
        THEN [ok |-> FALSE, map |-> [map EXCEPT !.height = h, !.width = w]]
      ELSE
        LET sizedTiles == Resize(map.tiles, h, Vec(w, EMPTY))
            coins == Resize(map.coinStates, h, Vec(w, AVAILABLE))
            tiles == [y \in 0..(h - 1) |->
                        [x \in DOMAIN sizedTiles[y] |->
                           IF x < w THEN TileOfChar(lines[y + 1][x + 1])
                           ELSE sizedTiles[y][x]]]
        IN  [ok |-> TRUE,
             map |-> [width |-> w, height |-> h, tiles |-> tiles, coinStates |-> coins]]

(* ----------------------------- Broadcaster ----------------------------- *)
\* NetworkPacket::addShort: little-endian
addShort(v) == <<v % 256, (v \div 256) % 256>>

\* Broadcaster::broadcastToAll of a serialized packet: tag, payload and the
\* sockets it is written to
broadcastToAll(players, type, data) ==
  [type |-> type, data |-> data, to |-> PlayerSocks(players)]

\* the packet the server writes to one socket
sendTo(sock, type, data) == [type |-> type, data |-> data, to |-> {sock}]

broadcastGameStart(players) ==
  broadcastToAll(players, GAME_START, <<U8(Len(players)), 0>>)

\* static_cast<int16_t>(coordinate * 100), then static_cast<uint16_t>
FixedPrecision(v) == U16(IF v >= 0 THEN v \div 10 ELSE 65536 - ((-v) \div 10))

RECURSIVE PlayerBytes(_, _)
PlayerBytes(players, i) ==
  IF i > Len(players) THEN <<>>
  ELSE LET p == players[i]
       IN  <<U8(p.id), U8(p.state)>>
           \o addShort(FixedPrecision(p.x)) \o addShort(FixedPrecision(p.y))
           \o addShort(U16(p.score)) \o <<IF p.jet THEN 1 ELSE 0, 0>>
           \o PlayerBytes(players, i + 1)

broadcastGameState(players) ==
  broadcastToAll(players, GAME_STATE_UPDATE,
                 <<U8(Len(players))>> \o PlayerBytes(players, 1))

broadcastCoinCollected(players, playerId, x, y, coinState) ==
  LET hits == {i \in 1..Len(players) : players[i].id = playerId}
      first == CHOOSE i \in hits : \A j \in hits : i <= j
      score == IF hits = {} THEN 0 ELSE players[first].score
  IN  broadcastToAll(players, COIN_COLLECTED,
                     <<U8(playerId), U8(x), U8(y), U8(score), U8(coinState)>>)

broadcastPlayerDeath(players, playerId) ==
  broadcastToAll(players, PLAYER_DEATH, <<U8(playerId)>>)

\* winnerId defaults to -1
broadcastGameOver(players, winnerId) ==
  LET hasWinner == winnerId > 0
  IN  broadcastToAll(players, GAME_OVER,
                     <<IF hasWinner THEN 1 ELSE 0, IF hasWinner THEN U8(winnerId) ELSE 0>>)

(* ------------------------------- Physics ------------------------------- *)
Clamp(v, lo, hi) == IF v < lo THEN lo ELSE IF v > hi THEN hi ELSE v

\* mutant of applyPhysics: the vertical speed is not clamped
applyPhysics_Unclamped(p) ==
  LET velocityY == p.vy + GRAVITY - (IF p.jet THEN JETPACK_FORCE ELSE 0)
  IN  [p EXCEPT !.vy = velocityY, !.x = p.x + HORIZONTAL_SPEED, !.y = p.y + velocityY]

\* mutant of applyPhysics: no horizontal motion while the jetpack is on
applyPhysics_JetHovers(p) ==
  LET velocityY == Clamp(p.vy + GRAVITY - (IF p.jet THEN JETPACK_FORCE ELSE 0),
                         -MAX_VELOCITY, MAX_VELOCITY)
  IN  [p EXCEPT !.vy = velocityY,
                !.x = p.x + (IF p.jet THEN 0 ELSE HORIZONTAL_SPEED),
                !.y = p.y + velocityY]

\* mutant of applyPhysics: a player with the jetpack on does not advance
applyPhysics_JetStalls(p) ==
  LET velocityY == Clamp(p.vy + GRAVITY - (IF p.jet THEN JETPACK_FORCE ELSE 0),
                         -MAX_VELOCITY, MAX_VELOCITY)
  IN  [p EXCEPT !.vy = velocityY,
                !.x = IF p.jet THEN p.x ELSE p.x + HORIZONTAL_SPEED,
                !.y = p.y + velocityY]

\* mutant of applyPhysics: the player does not advance along the track
applyPhysics_NoAdvance(p) ==
  LET velocityY == Clamp(p.vy + GRAVITY - (IF p.jet THEN JETPACK_FORCE ELSE 0),
                         -MAX_VELOCITY, MAX_VELOCITY)
  IN  [p EXCEPT !.vy = velocityY, !.y = p.y + velocityY]

applyPhysics(p) ==
  LET velocityY == Clamp(p.vy + GRAVITY - (IF p.jet THEN JETPACK_FORCE ELSE 0),
                         -MAX_VELOCITY, MAX_VELOCITY)
  IN  [p EXCEPT !.vy = velocityY, !.x = p.x + HORIZONTAL_SPEED, !.y = p.y + velocityY]

\* mutant of checkBounds: the ceiling is tested with y > height - 1
checkBounds_AboveOnly(p, map) ==
  IF p.y < 0 THEN [p EXCEPT !.y = 0, !.vy = 0]
  ELSE IF p.y > (map.height - 1) * Unit
    THEN [p EXCEPT !.y = (map.height - 1) * Unit, !.vy = 0]
  ELSE p

\* mutant of checkBounds: a player below y = 0 is reflected
checkBounds_Reflects(p, map) ==
  IF p.y < 0 THEN [p EXCEPT !.y = 0 - p.y, !.vy = 0 - p.vy]
  ELSE IF p.y >= (map.height - 1) * Unit
    THEN [p EXCEPT !.y = (map.height - 1) * Unit, !.vy = 0]
  ELSE p

\* Physics::checkBounds
checkBounds(p, map) ==
  IF p.y < 0 THEN [p EXCEPT !.y = 0, !.vy = 0]
  ELSE IF p.y >= (map.height - 1) * Unit
    THEN [p EXCEPT !.y = (map.height - 1) * Unit, !.vy = 0]
  ELSE p

(* ------------------------------ game logic ----------------------------- *)
\* mutant of updatePlayers: the finish line is x > width
updatePlayers_PastWidth(players, map) ==
  [i \in 1..Len(players) |->
     IF players[i].state # PLAYING THEN players[i]
     ELSE LET q == checkBounds(applyPhysics(players[i]), map)
          IN  IF q.x > map.width * Unit THEN [q EXCEPT !.state = FINISHED] ELSE q]

\* GameServer::updatePlayers
updatePlayers(players, map) ==
  [i \in 1..Len(players) |->
     IF players[i].state # PLAYING THEN players[i]
     ELSE LET q == checkBounds(applyPhysics(players[i]), map)
          IN  IF q.x >= map.width * Unit THEN [q EXCEPT !.state = FINISHED] ELSE q]

\* mutant of alreadyCollected: the coin-state is never consulted
alreadyCollected_Never(playerId, currentState) == FALSE

\* mutant of alreadyCollected: only player 1 is ever blocked
alreadyCollected_FirstOnly(playerId, currentState) ==
  playerId = 1 /\ currentState \in {COLLECTED_P1, COLLECTED_BOTH}

\* checkCollisions: does the coin-state block this player id
alreadyCollected(playerId, currentState) ==
  \/ playerId = 1 /\ currentState \in {COLLECTED_P1, COLLECTED_BOTH}
  \/ playerId = 2 /\ currentState \in {COLLECTED_P2, COLLECTED_BOTH}

\* mutant of coinAfterPickup: first claim wins, the tile is cleared at once
coinAfterPickup_FirstClaimClears(playerId, currentState, tile) ==
  IF currentState = AVAILABLE
    THEN [coin |-> IF playerId = 1 THEN COLLECTED_P1 ELSE COLLECTED_P2, tile |-> EMPTY]
  ELSE [coin |-> COLLECTED_BOTH, tile |-> EMPTY]

\* checkCollisions: the coin-state and tile of a coin cell after a pickup
coinAfterPickup(playerId, currentState, tile) ==
  IF currentState = AVAILABLE
    THEN [coin |-> IF playerId = 1 THEN COLLECTED_P1 ELSE COLLECTED_P2, tile |-> tile]
  ELSE IF currentState = COLLECTED_P1 /\ playerId = 2
    THEN [coin |-> COLLECTED_BOTH, tile |-> EMPTY]
  ELSE IF currentState = COLLECTED_P2 /\ playerId = 1
    THEN [coin |-> COLLECTED_BOTH, tile |-> EMPTY]
  ELSE [coin |-> currentState, tile |-> tile]

\* One pass of the loop body of checkCollisions, for the i-th player of the
\* table.  acc = [players, map, out, log, credited]; log and credited record
\* what the pass did (they are not program state).
collideOne(acc, i) ==
  LET player == acc.players[i]
      map == acc.map
      cell_x == ToInt(player.x)
      cell_y == ToInt(player.y)
      inside == cell_x >= 0 /\ cell_x < map.width /\ cell_y >= 0 /\ cell_y < map.height
  IN
  IF player.state # PLAYING \/ ~inside THEN acc
  ELSE
    LET tile == map.tiles[cell_y][cell_x]
        currentState == map.coinStates[cell_y][cell_x]
        key == <<player.sock, cell_x, cell_y>>
        pickup == tile = COIN /\ ~alreadyCollected(player.id, currentState)
        after == IF pickup THEN coinAfterPickup(player.id, currentState, tile)
                 ELSE [coin |-> currentState, tile |-> tile]
        players1 ==
          IF pickup THEN [acc.players EXCEPT ![i].score = player.score + 1]
          ELSE IF tile = ELECTRICSQUARE THEN [acc.players EXCEPT ![i].state = DEAD]
          ELSE acc.players
        map1 == [map EXCEPT !.coinStates[cell_y][cell_x] = after.coin,
                            !.tiles[cell_y][cell_x] = after.tile]
        pkts ==
          IF pickup
            THEN <<broadcastCoinCollected(players1, player.id, cell_x, cell_y, after.coin)>>
          ELSE IF tile = ELECTRICSQUARE
            THEN <<broadcastPlayerDeath(players1, player.id)>>
          ELSE <<>>
        entry == [sock |-> player.sock, id |-> player.id, x |-> cell_x, y |-> cell_y,
                  coinFrom |-> currentState, coinTo |-> after.coin,
                  tileFrom |-> tile, tileTo |-> after.tile,
                  scoreFrom |-> player.score, scoreTo |-> players1[i].score,
                  creditedBefore |-> key \in DOMAIN acc.credited,
                  pkts |-> pkts]
    IN  [players |-> players1,
         map |-> map1,
         out |-> acc.out \o pkts,
         log |-> Append(acc.log, entry),
         credited |->
           IF players1[i].score = player.score THEN acc.credited
           ELSE IF key \in DOMAIN acc.credited
             THEN [acc.credited EXCEPT ![key] = @ + 1]
           ELSE acc.credited @@ (key :> 1)]

\* GameServer::checkCollisions: the loop over the table
RECURSIVE collideFrom(_, _)
collideFrom(acc, i) ==
  IF i > Len(acc.players) THEN acc
  ELSE Bind(collideOne(acc, i), LAMBDA next : collideFrom(next, i + 1))

checkCollisions(players, map, cred) ==
  Bind([players |-> players, map |-> map, out |-> <<>>, log |-> <<>>,
        credited |-> cred],
       LAMBDA acc : collideFrom(acc, 1))

\* mutant of winnerScan: the score comparison is >= (last maximum wins)
RECURSIVE winnerScan_LastMax(_, _, _, _, _)
winnerScan_LastMax(players, anyDead, i, winnerId, highestScore) ==
  IF i > Len(players) THEN winnerId
  ELSE IF anyDead /\ players[i].state # DEAD THEN players[i].id
  ELSE IF players[i].score >= highestScore
    THEN winnerScan_LastMax(players, anyDead, i + 1, players[i].id, players[i].score)
  ELSE winnerScan_LastMax(players, anyDead, i + 1, winnerId, highestScore)

\* mutant of winnerScan: the score comparison is inverted
RECURSIVE winnerScan_Inverted(_, _, _, _, _)
winnerScan_Inverted(players, anyDead, i, winnerId, highestScore) ==
  IF i > Len(players) THEN winnerId
  ELSE IF anyDead /\ players[i].state # DEAD THEN players[i].id
  ELSE IF players[i].score < highestScore \/ highestScore = -1
    THEN winnerScan_Inverted(players, anyDead, i + 1, players[i].id, players[i].score)
  ELSE winnerScan_Inverted(players, anyDead, i + 1, winnerId, highestScore)

\* checkGameEnd: the winner loop, from the i-th player on
RECURSIVE winnerScan(_, _, _, _, _)
winnerScan(players, anyDead, i, winnerId, highestScore) ==
  IF i > Len(players) THEN winnerId
  ELSE IF anyDead /\ players[i].state # DEAD THEN players[i].id
  ELSE IF players[i].score > highestScore
    THEN winnerScan(players, anyDead, i + 1, players[i].id, players[i].score)
  ELSE winnerScan(players, anyDead, i + 1, winnerId, highestScore)

\* mutant of gameEnds: reaching the finish line does not end the match
gameEnds_IgnoresFinish(players) ==
  LET anyDead == \E i \in 1..Len(players) : players[i].state = DEAD
      activePlayersCount ==
        Cardinality({i \in 1..Len(players) : players[i].state \in {PLAYING, FINISHED}})
  IN  \/ anyDead
      \/ activePlayersCount < MIN_PLAYERS /\ Len(players) >= MIN_PLAYERS

\* checkGameEnd: the end condition
gameEnds(players) ==
  LET allFinished == \A i \in 1..Len(players) : players[i].state # PLAYING
      anyDead == \E i \in 1..Len(players) : players[i].state = DEAD
      activePlayersCount ==
        Cardinality({i \in 1..Len(players) : players[i].state \in {PLAYING, FINISHED}})
  IN  \/ allFinished /\ activePlayersCount > 0
      \/ anyDead
      \/ activePlayersCount < MIN_PLAYERS /\ Len(players) >= MIN_PLAYERS

\* checkGameEnd: the id handed to broadcastGameOver
winnerOf(players) ==
  winnerScan(players, \E i \in 1..Len(players) : players[i].state = DEAD, 1, -1, -1)

(* ------------------------------- state --------------------------------- *)
VARIABLES
  mapFile,      \* contents of m_mapFile
  m_map,        \* GameMap
  m_players,    \* the player table, in iteration order
  m_pollfds,    \* registered descriptors, in vector order
  openFds,      \* descriptors of the process that are open
  m_gameState,  \* session state
  cursor,       \* handleSocketEvents: next index of m_pollfds to examine
  fresh,        \* descriptors registered after this iteration's poll
  inputsUsed,   \* flag-changing PLAYER_INPUT packets so far
  extra,        \* connections accepted in this session after its match started
  credited,     \* this match: <<socket, x, y>> |-> times the cell raised the score
  issued,       \* ids handed to the clients of the match since it started
  client,       \* one client process: its NetworkClient, GameData and socket
  step          \* what the last handler did: [op, sent, reset, log, ended]

vars == <<mapFile, m_map, m_players, m_pollfds, openFds, m_gameState, cursor, fresh,
          inputsUsed, extra, credited, issued, client, step>>

NoCredit == [k \in {} |-> 0]

\* record of a handler: its name, the packets it wrote in order, whether it
\* ran resetGame, the passes of checkCollisions, and the table checkGameEnd
\* ended the match on (empty when it did not)
Did(op, sent, reset, log, ended) ==
  [op |-> op, sent |-> sent, reset |-> reset, log |-> log, ended |-> ended]

\* Shared::Protocol::Player(clientSocket, playerId)
NewPlayer(sock, id) ==
  [sock |-> sock, id |-> id, x |-> 0, y |-> 0, vy |-> 0, jet |-> FALSE,
   score |-> 0, state |-> CONNECTED]

\* GameData(): the snapshot a GameDisplay starts with
GameDataStart ==
  [m_map |-> EmptyMap, m_coinStates |-> <<>>, m_players |-> <<>>,
   m_localPlayerId |-> 1, m_gameOver |-> FALSE, m_winnerId |-> -1]

\* the two threads of a client: the main thread, which renders, and the
\* network thread
Threads == {"render", "network"}

\* a thread that is in no member function of GameData
Outside == [fn |-> "", arg |-> <<>>, pc |-> 0, ret |-> <<>>]

\* a client after connectToServer and the first lines of start(): nothing
\* read yet. wire holds the bytes the server wrote that recv has not returned;
\* script and handed are the packets the server wrote and the packets given
\* to processPacket; m_dataMutex is "free" or the thread that holds it; calls
\* gives for each thread the member function of GameData it is in, its
\* argument, its position (0 at the lock_guard, k when k - 1 statements of
\* the body are done) and the value it is about to return.
ClientStart ==
  [wire |-> <<>>, accumulatedBuffer |-> <<>>, m_localPlayerId |-> -1,
   m_running |-> TRUE, m_map |-> EmptyMap, m_players |-> <<>>,
   gameData |-> GameDataStart, m_dataMutex |-> "free", m_jetpackActive |-> FALSE,
   calls |-> [t \in Threads |-> Outside], script |-> <<>>, handed |-> <<>>]

Init ==
  /\ mapFile \in MapFiles
  /\ loadMap(mapFile, EmptyMap).ok
  /\ m_map = loadMap(mapFile, EmptyMap).map
  /\ m_players = <<>>
  /\ m_pollfds = <<m_serverSocket>>
  /\ openFds = {m_serverSocket}
  /\ m_gameState = WAITING_FOR_PLAYERS
  /\ cursor = 1
  /\ fresh = {}
  /\ inputsUsed = 0
  /\ extra = 0
  /\ credited = NoCredit
  /\ issued = {}
  /\ client = ClientStart
  /\ step = Did("init", <<>>, FALSE, <<>>, <<>>)

(* ------------------------------ handlers ------------------------------- *)
\* mutant of sendConnectResponse: the count is taken before the insertion
sendConnectResponse_CountBefore(players, clientSocket, playerId) ==
  sendTo(clientSocket, CONNECT_RESPONSE, <<U8(playerId), U8(Len(players) - 1)>>)

\* GameServer::sendConnectResponse
sendConnectResponse(players, clientSocket, playerId) ==
  sendTo(clientSocket, CONNECT_RESPONSE, <<U8(playerId), U8(Len(players))>>)

RECURSIVE GridBytes(_, _, _, _)
GridBytes(grid, w, h, k) ==
  IF k >= w * h THEN <<>>
  ELSE <<U8(grid[k \div w][k % w])>> \o GridBytes(grid, w, h, k + 1)

\* GameServer::sendMapData
sendMapData(map, clientSocket) ==
  sendTo(clientSocket, MAP_DATA,
         addShort(U16(map.width)) \o addShort(U16(map.height))
         \o GridBytes(map.tiles, map.width, map.height, 0)
         \o GridBytes(map.coinStates, map.width, map.height, 0))

\* mutant of checkGameStart: the players are not moved to the spawn
checkGameStart_NoSpawn(players, map, gameState) ==
  IF gameState # WAITING_FOR_PLAYERS \/ Len(players) < MIN_PLAYERS
    THEN [players |-> players, gameState |-> gameState, sent |-> <<>>]
  ELSE
    LET ready == [i \in 1..Len(players) |-> [players[i] EXCEPT !.state = READY]]
    IN  [players |-> ready, gameState |-> IN_PROGRESS,
         sent |-> <<broadcastGameStart(ready), broadcastGameState(ready)>>]

\* GameServer::checkGameStart: [players, gameState, sent]
checkGameStart(players, map, gameState) ==
  IF gameState # WAITING_FOR_PLAYERS \/ Len(players) < MIN_PLAYERS
    THEN [players |-> players, gameState |-> gameState, sent |-> <<>>]
  ELSE
    LET ready == [i \in 1..Len(players) |->
                    [players[i] EXCEPT !.state = READY, !.x = 1 * Unit,
                                       !.y = (map.height - 2) * Unit]]
    IN  [players |-> ready, gameState |-> IN_PROGRESS,
         sent |-> <<broadcastGameStart(ready), broadcastGameState(ready)>>]

\* mutant of handleClientDisconnect: the session state is not looked at
handleClientDisconnect_AnyState(players, pollfds, gameState, clientSocket) ==
  LET it == FindSock(players, clientSocket)
      players1 == IF it # 0 THEN RemoveAt(players, it) ELSE players
      hits == {i \in 1..Len(pollfds) : pollfds[i] = clientSocket}
      pollfds1 == IF hits = {} THEN pollfds
                  ELSE RemoveAt(pollfds, CHOOSE i \in hits : \A j \in hits : i <= j)
      activePlayers ==
        Cardinality({i \in 1..Len(players1) : players1[i].state = PLAYING})
      over == activePlayers < MIN_PLAYERS
  IN  [players |-> players1,
       pollfds |-> pollfds1,
       gameState |-> IF over THEN GAME_OVER_STATE ELSE gameState,
       sent |-> IF over THEN <<broadcastGameOver(players1, -1)>> ELSE <<>>,
       closed |-> IF hits = {} THEN {} ELSE {clientSocket}]

\* mutant of handleClientDisconnect: the leaver is still counted as playing
handleClientDisconnect_CountsLeaver(players, pollfds, gameState, clientSocket) ==
  LET it == FindSock(players, clientSocket)
      players1 == IF it # 0 THEN RemoveAt(players, it) ELSE players
      hits == {i \in 1..Len(pollfds) : pollfds[i] = clientSocket}
      pollfds1 == IF hits = {} THEN pollfds
                  ELSE RemoveAt(pollfds, CHOOSE i \in hits : \A j \in hits : i <= j)
      activePlayers ==
        Cardinality({i \in 1..Len(players) : players[i].state = PLAYING})
      over == gameState = IN_PROGRESS /\ activePlayers < MIN_PLAYERS
  IN  [players |-> players1,
       pollfds |-> pollfds1,
       gameState |-> IF over THEN GAME_OVER_STATE ELSE gameState,
       sent |-> IF over THEN <<broadcastGameOver(players1, -1)>> ELSE <<>>,
       closed |-> IF hits = {} THEN {} ELSE {clientSocket}]

\* GameServer::handleClientDisconnect: [players, pollfds, gameState, sent,
\* closed], closed being the descriptors it closed
handleClientDisconnect(players, pollfds, gameState, clientSocket) ==
  LET it == FindSock(players, clientSocket)
      players1 == IF it # 0 THEN RemoveAt(players, it) ELSE players
      hits == {i \in 1..Len(pollfds) : pollfds[i] = clientSocket}
      pollfds1 == IF hits = {} THEN pollfds
                  ELSE RemoveAt(pollfds, CHOOSE i \in hits : \A j \in hits : i <= j)
      activePlayers ==
        Cardinality({i \in 1..Len(players1) : players1[i].state = PLAYING})
      over == gameState = IN_PROGRESS /\ activePlayers < MIN_PLAYERS
  IN  [players |-> players1,
       pollfds |-> pollfds1,
       gameState |-> IF over THEN GAME_OVER_STATE ELSE gameState,
       sent |-> IF over THEN <<broadcastGameOver(players1, -1)>> ELSE <<>>,
       closed |-> IF hits = {} THEN {} ELSE {clientSocket}]

\* mutant of handlePlayerInput: the player's state is not looked at
handlePlayerInput_AnyState(players, clientSocket, data) ==
  LET it == FindSock(players, clientSocket)
  IN  IF Len(data) < 2 THEN players
      ELSE IF it # 0 THEN [players EXCEPT ![it].jet = (data[2] # 0)]
      ELSE players

\* GameServer::handlePlayerInput
handlePlayerInput(players, clientSocket, data) ==
  LET it == FindSock(players, clientSocket)
  IN  IF Len(data) < 2 THEN players
      ELSE IF it # 0 /\ players[it].state = PLAYING
        THEN [players EXCEPT ![it].jet = (data[2] # 0)]
      ELSE players

\* mutant of processPacket: a tag it does not handle disconnects the client
processPacket_StrictTags(players, pollfds, gameState, clientSocket, data) ==
  LET same == [players |-> players, pollfds |-> pollfds, gameState |-> gameState,
               sent |-> <<>>, closed |-> {}]
  IN  IF Len(data) < 1 THEN same
      ELSE CASE data[1] = CONNECT_REQUEST -> same
             [] data[1] = PLAYER_INPUT ->
                  [same EXCEPT !.players = handlePlayerInput(players, clientSocket, data)]
             [] OTHER -> handleClientDisconnect(players, pollfds, gameState, clientSocket)

\* mutant of processPacket: PLAYER_DISCONNECT only unregisters the descriptor
processPacket_UnregisterOnly(players, pollfds, gameState, clientSocket, data) ==
  LET same == [players |-> players, pollfds |-> pollfds, gameState |-> gameState,
               sent |-> <<>>, closed |-> {}]
  IN  IF Len(data) < 1 THEN same
      ELSE CASE data[1] = CONNECT_REQUEST -> same
             [] data[1] = PLAYER_INPUT ->
                  [same EXCEPT !.players = handlePlayerInput(players, clientSocket, data)]
             [] data[1] = PLAYER_DISCONNECT ->
                  [same EXCEPT !.pollfds = SelectSeq(pollfds, LAMBDA f : f # clientSocket)]
             [] OTHER -> same

\* GameServer::processPacket: [players, pollfds, gameState, sent, closed]
processPacket(players, pollfds, gameState, clientSocket, data) ==
  LET same == [players |-> players, pollfds |-> pollfds, gameState |-> gameState,
               sent |-> <<>>, closed |-> {}]
  IN  IF Len(data) < 1 THEN same
      ELSE CASE data[1] = CONNECT_REQUEST -> same
             [] data[1] = PLAYER_INPUT ->
                  [same EXCEPT !.players = handlePlayerInput(players, clientSocket, data)]
             [] data[1] = PLAYER_DISCONNECT ->
                  handleClientDisconnect(players, pollfds, gameState, clientSocket)
             [] OTHER -> same

\* the lowest descriptor that is not open: what accept returns
LowestFree(open) ==
  LET free == {f \in 0..Cardinality(open) : f \notin open}
  IN  CHOOSE f \in free : \A g \in free : f <= g

\* buffers a client's recv can deliver: one packet, other bytes, or two
\* packets that arrived back to back
Buffers ==
  { <<PLAYER_INPUT, 0>>, <<PLAYER_INPUT, 1>>, <<PLAYER_INPUT>>,
    <<PLAYER_DISCONNECT>>, <<CONNECT_REQUEST, 0>>, <<GAME_OVER, 1, 1>>, <<99>>,
    <<CONNECT_RESPONSE, 1, 1>>, <<GAME_STATE_UPDATE, 0>>,
    <<PLAYER_INPUT, 1, PLAYER_INPUT, 0>>, <<PLAYER_INPUT, 1, PLAYER_DISCONNECT>> }

(* ------------------------------- actions ------------------------------- *)
\* handleSocketEvents, listener readable: acceptNewClient, when accept returns
\* a descriptor (when it fails the handler returns and nothing has changed).
\* The table's iteration order after the insertion is not determined by the
\* program.
AcceptNewClient ==
  /\ cursor = 1
  /\ m_gameState # WAITING_FOR_PLAYERS => extra < MaxExtra
  /\ extra' = IF m_gameState # WAITING_FOR_PLAYERS THEN extra + 1 ELSE extra
  /\ LET clientSocket == LowestFree(openFds)
         newPlayerId == Len(m_players) + 1
     IN  \E k \in 1..(Len(m_players) + 1) :
           LET players1 == InsertAt(m_players, k, NewPlayer(clientSocket, newPlayerId))
               start == checkGameStart(players1, m_map, m_gameState)
           IN  /\ m_pollfds' = Append(m_pollfds, clientSocket)
               /\ openFds' = openFds \cup {clientSocket}
               /\ m_players' = start.players
               /\ m_gameState' = start.gameState
               /\ fresh' = fresh \cup {clientSocket}
               /\ issued' = IF start.gameState = WAITING_FOR_PLAYERS THEN {}
                             ELSE IF m_gameState = WAITING_FOR_PLAYERS
                               THEN {start.players[i].id : i \in 1..Len(start.players)}
                             ELSE issued \cup {newPlayerId}
               /\ step' = Did("accept",
                              <<sendConnectResponse(players1, clientSocket, newPlayerId),
                                sendMapData(m_map, clientSocket)>> \o start.sent,
                              FALSE, <<>>, <<>>)
  /\ cursor' = 2
  /\ UNCHANGED <<client, mapFile, m_map, inputsUsed, credited>>

\* descriptors of clients whose events this iteration can still deliver
Deliverable == {j \in 2..Len(m_pollfds) : j >= cursor /\ m_pollfds[j] \notin fresh}

\* handleSocketEvents, client readable: handleClientData, recv delivered data
HandleClientData ==
  \E j \in Deliverable, data \in Buffers :
    LET clientSocket == m_pollfds[j]
        r == processPacket(m_players, m_pollfds, m_gameState, clientSocket, data)
        changed == r.players # m_players /\ Len(r.players) = Len(m_players)
    IN  /\ changed => inputsUsed < MaxInputs
        /\ inputsUsed' = IF changed THEN inputsUsed + 1 ELSE inputsUsed
        /\ m_players' = r.players
        /\ m_pollfds' = r.pollfds
        /\ m_gameState' = r.gameState
        /\ openFds' = openFds \ r.closed
        /\ cursor' = j + 1
        /\ step' = Did(IF data[1] = PLAYER_DISCONNECT THEN "disconnect" ELSE "data",
                       r.sent, FALSE, <<>>, <<>>)
        /\ UNCHANGED <<client, mapFile, m_map, fresh, extra, credited, issued>>

\* handleClientData when recv returns 0 or fails hard
HandleClientClosed ==
  \E j \in Deliverable :
    LET r == handleClientDisconnect(m_players, m_pollfds, m_gameState, m_pollfds[j])
    IN  /\ m_players' = r.players
        /\ m_pollfds' = r.pollfds
        /\ m_gameState' = r.gameState
        /\ openFds' = openFds \ r.closed
        /\ cursor' = j + 1
        /\ step' = Did("data", r.sent, FALSE, <<>>, <<>>)
        /\ UNCHANGED <<client, mapFile, m_map, fresh, inputsUsed, extra, credited, issued>>

\* handleSocketEvents, POLLHUP or POLLERR without POLLIN on a client: the
\* index is stepped back after the removal
HandleClientHangup ==
  \E j \in Deliverable :
    LET r == handleClientDisconnect(m_players, m_pollfds, m_gameState, m_pollfds[j])
    IN  /\ m_players' = r.players
        /\ m_pollfds' = r.pollfds
        /\ m_gameState' = r.gameState
        /\ openFds' = openFds \ r.closed
        /\ cursor' = j
        /\ step' = Did("hangup", r.sent, FALSE, <<>>, <<>>)
        /\ UNCHANGED <<client, mapFile, m_map, fresh, inputsUsed, extra, credited, issued>>

\* mutant of resetGame: the players' descriptors are dropped, not closed
resetGame_NoClose(players, file, map) ==
  [players |-> <<>>, pollfds |-> <<m_serverSocket>>,
   map |-> loadMap(file, map).map, gameState |-> WAITING_FOR_PLAYERS,
   closed |-> {}]

\* GameServer::resetGame: [players, pollfds, map, gameState, closed]
resetGame(players, file, map) ==
  [players |-> <<>>, pollfds |-> <<m_serverSocket>>,
   map |-> loadMap(file, map).map, gameState |-> WAITING_FOR_PLAYERS,
   closed |-> PlayerSocks(players)]

\* mutant of promoteReady: only the first Ready player of the table starts
promoteReady_FirstOnly(players) ==
  LET ready == {i \in 1..Len(players) : players[i].state = READY}
  IN  [i \in 1..Len(players) |->
         IF i \in ready /\ \A j \in ready : i <= j
         THEN [players[i] EXCEPT !.state = PLAYING]
         ELSE players[i]]

\* GameServer::updateGameState: the promotion loop
promoteReady(players) ==
  [i \in 1..Len(players) |->
     IF players[i].state = READY THEN [players[i] EXCEPT !.state = PLAYING]
     ELSE players[i]]

\* mutant of updateGameState: the GAME_STATE_UPDATE is written before the
\* notifications of the collision passes
updateGameState_StateFirst(players, pollfds, map, gameState, cred, extras, file) ==
  LET same == [players |-> players, pollfds |-> pollfds, map |-> map,
               gameState |-> gameState, credited |-> cred, extra |-> extras,
               closed |-> {}, returns |-> TRUE, did |-> Did("tick", <<>>, FALSE, <<>>, <<>>)]
  IN
  IF gameState # IN_PROGRESS THEN same
  ELSE IF /\ \A i \in 1..Len(players) : players[i].state \in {PLAYING, READY}
          /\ \A i \in 1..Len(players) : players[i].state # PLAYING
  THEN
    LET promoted == promoteReady(players)
    IN  [same EXCEPT !.players = promoted,
                     !.did = Did("tick", <<broadcastGameState(promoted)>>,
                                 FALSE, <<>>, <<>>)]
  ELSE
    Bind(checkCollisions(updatePlayers(players, map), map, cred), LAMBDA hit :
    LET update == broadcastGameState(hit.players)
    IN  IF gameEnds(hit.players) THEN
          LET r == resetGame(hit.players, file, hit.map)
          IN  [players |-> r.players, pollfds |-> r.pollfds, map |-> r.map,
               gameState |-> r.gameState, credited |-> NoCredit, extra |-> 0,
               closed |-> r.closed,
               returns |-> loadMap(file, hit.map).ok,
               did |-> Did("tick",
                           <<update>> \o hit.out \o
                             <<broadcastGameOver(hit.players, winnerOf(hit.players))>>,
                           TRUE, hit.log, hit.players)]
        ELSE
          [same EXCEPT !.players = hit.players, !.map = hit.map,
                       !.credited = hit.credited,
                       !.did = Did("tick", <<update>> \o hit.out, FALSE, hit.log, <<>>)])

\* GameServer::updateGameState with checkGameEnd, on the server's fields:
\* the fields after the call, what it wrote (did) and whether it returned
\* (a failed map reload in resetGame throws)
updateGameState(players, pollfds, map, gameState, cred, extras, file) ==
  LET same == [players |-> players, pollfds |-> pollfds, map |-> map,
               gameState |-> gameState, credited |-> cred, extra |-> extras,
               closed |-> {}, returns |-> TRUE, did |-> Did("tick", <<>>, FALSE, <<>>, <<>>)]
  IN
  IF gameState # IN_PROGRESS THEN same
  ELSE IF /\ \A i \in 1..Len(players) : players[i].state \in {PLAYING, READY}
          /\ \A i \in 1..Len(players) : players[i].state # PLAYING
  THEN
    LET promoted == promoteReady(players)
    IN  [same EXCEPT !.players = promoted,
                     !.did = Did("tick", <<broadcastGameState(promoted)>>,
                                 FALSE, <<>>, <<>>)]
  ELSE
    Bind(checkCollisions(updatePlayers(players, map), map, cred), LAMBDA hit :
    LET update == broadcastGameState(hit.players)
    IN  IF gameEnds(hit.players) THEN
          LET r == resetGame(hit.players, file, hit.map)
          IN  [players |-> r.players, pollfds |-> r.pollfds, map |-> r.map,
               gameState |-> r.gameState, credited |-> NoCredit, extra |-> 0,
               closed |-> r.closed,
               returns |-> loadMap(file, hit.map).ok,
               did |-> Did("tick",
                           hit.out \o <<update,
                             broadcastGameOver(hit.players, winnerOf(hit.players))>>,
                           TRUE, hit.log, hit.players)]
        ELSE
          [same EXCEPT !.players = hit.players, !.map = hit.map,
                       !.credited = hit.credited,
                       !.did = Did("tick", hit.out \o <<update>>, FALSE, hit.log, <<>>)])

\* the end of a loop iteration of GameServer::start: updateGameState
UpdateGameState ==
  \E r \in {updateGameState(m_players, m_pollfds, m_map, m_gameState, credited,
                            extra, mapFile)} :
      /\ r.returns
      /\ m_players' = r.players
      /\ m_pollfds' = r.pollfds
      /\ m_map' = r.map
      /\ m_gameState' = r.gameState
      /\ credited' = r.credited
      /\ extra' = r.extra
      /\ step' = r.did
      /\ issued' = IF r.did.reset THEN {} ELSE issued
      /\ openFds' = openFds \ r.closed
      /\ cursor' = 1
      /\ fresh' = {}
      /\ UNCHANGED <<client, mapFile, inputsUsed>>

Next ==
  \/ AcceptNewClient
  \/ HandleClientData
  \/ HandleClientClosed
  \/ HandleClientHangup
  \/ UpdateGameState

Spec == Init /\ [][Next]_vars

\* The server started on the map whose matches are shortest, with a loop
\* (GameServer::start) that never stops iterating.
InitZap == Init /\ mapFile = MapZapAtSpawn

FairSpec == InitZap /\ [][Next]_vars /\ WF_vars(UpdateGameState)

(* ----------------- the steps of a tick, one at a time ------------------- *)
\* Tables handed to updatePlayers and checkCollisions: one or two players of
\* a running match, anywhere on the track.  A Playing player is short of the
\* finish line and a Finished one is on or past it.
TrackXs == {0, 1000, 1900, 1950, 2000}
TrackYs == {0, 1000, 1995, 2000}
TrackVys == {-50, 0, 47}

OnTrack(p, map) ==
  /\ p.state = PLAYING => p.x < map.width * Unit
  /\ p.state = FINISHED <=> p.x >= map.width * Unit
  /\ p.state = READY => p.x = 1 * Unit /\ p.vy = 0 /\ ~p.jet
  /\ p.state = CONNECTED <=> p.x = 0
  /\ p.state = CONNECTED => p.y = 0 /\ p.vy = 0 /\ ~p.jet
  /\ p.y <= (map.height - 1) * Unit

FirstPlayers ==
  [sock : {1}, id : {1}, x : TrackXs, y : TrackYs, vy : TrackVys, jet : BOOLEAN,
   score : {0}, state : {CONNECTED, READY, PLAYING, DEAD, FINISHED}]

SecondPlayers ==
  [sock : {2}, id : {2}, x : TrackXs, y : {0, 1000}, vy : {0}, jet : {FALSE},
   score : {0}, state : {PLAYING, DEAD, FINISHED}]

InitTables ==
  /\ mapFile \in MapFiles
  /\ m_map = loadMap(mapFile, EmptyMap).map
  /\ \E p \in FirstPlayers, q \in SecondPlayers :
        /\ OnTrack(p, m_map) /\ OnTrack(q, m_map)
        /\ m_players \in {<<p, q>>, <<q, p>>}
  /\ m_pollfds = <<m_serverSocket, 1, 2>>
  /\ openFds = {m_serverSocket, 1, 2}
  /\ m_gameState = IN_PROGRESS
  /\ cursor = 1
  /\ fresh = {}
  /\ inputsUsed = 0
  /\ extra = 0
  /\ credited = NoCredit
  /\ issued = {1, 2}
  /\ client = ClientStart
  /\ step = Did("table", <<>>, FALSE, <<>>, <<>>)

\* updateGameState, first call: updatePlayers
ApplyUpdatePlayers ==
  /\ step.op = "table"
  /\ m_players' = updatePlayers(m_players, m_map)
  /\ step' = Did("updatePlayers", <<>>, FALSE, <<>>, <<>>)
  /\ UNCHANGED <<client, mapFile, m_map, m_pollfds, openFds, m_gameState, cursor, fresh,
                 inputsUsed, extra, credited, issued>>

\* updateGameState, second call: checkCollisions
ApplyCheckCollisions ==
  /\ step.op = "updatePlayers"
  /\ \E hit \in {checkCollisions(m_players, m_map, credited)} :
        /\ m_players' = hit.players
        /\ m_map' = hit.map
        /\ credited' = hit.credited
        /\ step' = Did("checkCollisions", hit.out, FALSE, hit.log, <<>>)
  /\ UNCHANGED <<client, mapFile, m_pollfds, openFds, m_gameState, cursor, fresh,
                 inputsUsed, extra, issued>>

TickSteps == ApplyUpdatePlayers \/ ApplyCheckCollisions

TickStepsSpec == InitTables /\ [][TickSteps]_vars

\* descriptors a packet can have been read from: the two players' and one
\* that has no player
PacketSocks == {1, 2, 3}

\* handleClientData, after recv delivered a buffer: processPacket.  The
\* record of the step keeps the descriptor and the buffer.
ApplyProcessPacket ==
  /\ step.op = "table"
  /\ \E clientSocket \in PacketSocks, data \in Buffers :
        \E r \in {processPacket(m_players, m_pollfds, m_gameState, clientSocket, data)} :
          /\ m_players' = r.players
          /\ m_pollfds' = r.pollfds
          /\ m_gameState' = r.gameState
          /\ openFds' = openFds \ r.closed
          /\ step' = Did("processPacket", r.sent, FALSE,
                         <<[sock |-> clientSocket, data |-> data]>>, <<>>)
  /\ UNCHANGED <<client, mapFile, m_map, cursor, fresh, inputsUsed, extra, credited, issued>>

PacketSpec == InitTables /\ [][ApplyProcessPacket]_vars

(* ------------------ the physics of one player, step by step ------------ *)
\* map files of one, two and three rows
MapOneRow == << <<"_", "_">> >>
MapTwoRows == << <<"_", "c">>, <<"_", "_">> >>
PhysicsMapFiles == {MapOneRow, MapTwoRows, MapTwoCoins}

\* distances of a player from the floor and from the ceiling, and vertical
\* speeds, in thousandths
EdgeGaps == {0, 3, 8, 30}
PhysicsVys == {-MAX_VELOCITY, -45, -5, 0, 3, 42, MAX_VELOCITY}

\* heights a player can be at on a map: near y = 0 and near y = height - 1
PhysicsYs(map) ==
  {y \in {g : g \in EdgeGaps} \cup {(map.height - 1) * Unit - g : g \in EdgeGaps} :
     y >= 0 /\ y <= (map.height - 1) * Unit}

\* a table on entry to updatePlayers: a first player in any state of motion
\* and a second one at rest
InitPhysics ==
  /\ mapFile \in PhysicsMapFiles
  /\ m_map = loadMap(mapFile, EmptyMap).map
  /\ \E x \in {1000, 1950}, y \in PhysicsYs(m_map), vy \in PhysicsVys, jet \in BOOLEAN,
        st \in {PLAYING, DEAD} :
        m_players =
          << [sock |-> 1, id |-> 1, x |-> x, y |-> y, vy |-> vy, jet |-> jet,
              score |-> 0, state |-> PLAYING],
             [sock |-> 2, id |-> 2, x |-> 1000, y |-> 0, vy |-> 0, jet |-> FALSE,
              score |-> 0, state |-> st] >>
  /\ m_pollfds = <<m_serverSocket, 1, 2>>
  /\ openFds = {m_serverSocket, 1, 2}
  /\ m_gameState = IN_PROGRESS
  /\ cursor = 1
  /\ fresh = {}
  /\ inputsUsed = 0
  /\ extra = 0
  /\ credited = NoCredit
  /\ issued = {1, 2}
  /\ client = ClientStart
  /\ step = Did("table", <<>>, FALSE, <<>>, <<>>)

\* updatePlayers, for the first player: Physics::applyPhysics(player);
\* step.log holds the player it was applied to
ApplyPhysics ==
  /\ step.op = "table"
  /\ m_players[1].state = PLAYING
  /\ m_players' = [m_players EXCEPT ![1] = applyPhysics(@)]
  /\ step' = Did("applyPhysics", <<>>, FALSE, <<m_players[1]>>, <<>>)
  /\ UNCHANGED <<client, mapFile, m_map, m_pollfds, openFds, m_gameState, cursor, fresh,
                 inputsUsed, extra, credited, issued>>

\* updatePlayers, for the first player: Physics::checkBounds(player, m_map)
ApplyCheckBounds ==
  /\ step.op = "applyPhysics"
  /\ m_players' = [m_players EXCEPT ![1] = checkBounds(@, m_map)]
  /\ step' = Did("checkBounds", <<>>, FALSE, <<m_players[1]>>, <<>>)
  /\ UNCHANGED <<client, mapFile, m_map, m_pollfds, openFds, m_gameState, cursor, fresh,
                 inputsUsed, extra, credited, issued>>

\* Physics::checkBounds applied to its own result; step.log holds the
\* players of the first and of the second application
ApplyCheckBoundsAgain ==
  /\ step.op = "checkBounds"
  /\ m_players' = [m_players EXCEPT ![1] = checkBounds(@, m_map)]
  /\ step' = Did("checkBoundsAgain", <<>>, FALSE, step.log \o <<m_players[1]>>, <<>>)
  /\ UNCHANGED <<client, mapFile, m_map, m_pollfds, openFds, m_gameState, cursor, fresh,
                 inputsUsed, extra, credited, issued>>

PhysicsSteps ==
  \/ ApplyPhysics
  \/ ApplyCheckBounds
  \/ ApplyCheckBoundsAgain
  \/ ApplyUpdatePlayers

PhysicsSpec == InitPhysics /\ [][PhysicsSteps]_vars

(* ------------------------------ the client ----------------------------- *)
\* largest int
INT_MAX == 2147483647

\* sizes are held exactly up to INT_MAX - 1; INT_MAX stands for every size_t
\* from INT_MAX on (a buffer is shorter)
Beyond == INT_MAX

\* what a build makes of an int expression that overflows: the 32-bit
\* two's-complement result, or the exact result in a 64-bit register
Builds == {"wraps", "widens"}

\* width * height * 2 exceeds INT_MAX
Overflows(width, height) ==
  width # 0 /\ height > (INT_MAX \div 2) \div width

\* width * height * 2 in 32-bit two's complement, for 16-bit operands: the
\* product is summed in 16-bit halves
Wrap32Times2(width, height) ==
  LET a == (width \div 256) * height
      b == 2 * ((width % 256) * height)
      lo == (a % 128) * 512 + (b % 65536)
      hi == ((a \div 128) + (b \div 65536) + (lo \div 65536)) % 65536
  IN  IF hi >= 32768 THEN (hi - 65536) * 65536 + (lo % 65536)
      ELSE hi * 65536 + (lo % 65536)

\* size_t expectedSize = 5 + (width * height * 2)
expectedMapSize(width, height, build) ==
  LET v == IF Overflows(width, height)
             THEN IF build = "wraps" THEN Wrap32Times2(width, height) ELSE Beyond
             ELSE width * height * 2
  IN  IF v > INT_MAX - 6 THEN Beyond
      ELSE IF v + 5 < 0 THEN Beyond
      ELSE v + 5

\* mutant of getPacketSize: a tag without a size is skipped as one byte
getPacketSize_SkipsUnknown(data, maxSize, build) ==
  IF maxSize < 1 THEN 0
  ELSE CASE data[1] = CONNECT_RESPONSE -> IF maxSize >= 3 THEN 3 ELSE 0
         [] data[1] = MAP_DATA ->
              IF maxSize < 5 THEN 0
              ELSE LET width == data[2] + data[3] * 256
                       height == data[4] + data[5] * 256
                       expectedSize == expectedMapSize(width, height, build)
                   IN  IF maxSize >= expectedSize THEN expectedSize ELSE 0
         [] data[1] = GAME_START -> IF maxSize >= 3 THEN 3 ELSE 0
         [] data[1] = GAME_STATE_UPDATE ->
              IF maxSize < 2 THEN 0
              ELSE LET expectedSize == 2 + data[2] * 10
                   IN  IF maxSize >= expectedSize THEN expectedSize ELSE 0
         [] data[1] = COIN_COLLECTED -> IF maxSize >= 6 THEN 6 ELSE 0
         [] data[1] = PLAYER_DEATH -> IF maxSize >= 2 THEN 2 ELSE 0
         [] data[1] = GAME_OVER -> IF maxSize >= 3 THEN 3 ELSE 0
         [] data[1] = PLAYER_INPUT -> IF maxSize >= 2 THEN 2 ELSE 0
         [] OTHER -> 1

\* NetworkClient::getPacketSize; data holds the bytes at the pointer, the
\* first five of them at least when there are that many
getPacketSize(data, maxSize, build) ==
  IF maxSize < 1 THEN 0
  ELSE CASE data[1] = CONNECT_RESPONSE -> IF maxSize >= 3 THEN 3 ELSE 0
         [] data[1] = MAP_DATA ->
              IF maxSize < 5 THEN 0
              ELSE LET width == data[2] + data[3] * 256
                       height == data[4] + data[5] * 256
                       expectedSize == expectedMapSize(width, height, build)
                   IN  IF maxSize >= expectedSize THEN expectedSize ELSE 0
         [] data[1] = GAME_START -> IF maxSize >= 3 THEN 3 ELSE 0
         [] data[1] = GAME_STATE_UPDATE ->
              IF maxSize < 2 THEN 0
              ELSE LET expectedSize == 2 + data[2] * 10
                   IN  IF maxSize >= expectedSize THEN expectedSize ELSE 0
         [] data[1] = COIN_COLLECTED -> IF maxSize >= 6 THEN 6 ELSE 0
         [] data[1] = PLAYER_DEATH -> IF maxSize >= 2 THEN 2 ELSE 0
         [] data[1] = GAME_OVER -> IF maxSize >= 3 THEN 3 ELSE 0
         [] data[1] = PLAYER_INPUT -> IF maxSize >= 2 THEN 2 ELSE 0
         [] OTHER -> 0

\* NetworkPacket::serialize: [type][payload...]
serialize(packet) == <<packet.type>> \o packet.data

\* a 16-bit little-endian field read into an int16_t
S16(lo, hi) == IF lo + hi * 256 >= 32768 THEN lo + hi * 256 - 65536 ELSE lo + hi * 256

\* GameData::updateMap
updateMap(gameData, map) ==
  LET sized == Resize(gameData.m_coinStates, map.height, Vec(map.width, AVAILABLE))
      coins == IF map.coinStates = <<>> THEN sized
               ELSE [y \in 0..(map.height - 1) |->
                       [x \in DOMAIN sized[y] |->
                          IF x < map.width THEN map.coinStates[y][x] ELSE sized[y][x]]]
  IN  [gameData EXCEPT !.m_map = map, !.m_coinStates = coins]

\* mutant of updateCoinStates: the tile of a coin collected by both stays
updateCoinStates_KeepsTile(gameData, x, y, coinState) ==
  IF x >= 0 /\ x < gameData.m_map.width /\ y >= 0 /\ y < gameData.m_map.height
    THEN [gameData EXCEPT !.m_coinStates[y][x] = coinState]
    ELSE gameData

\* GameData::updateCoinStates
updateCoinStates(gameData, x, y, coinState) ==
  IF x >= 0 /\ x < gameData.m_map.width /\ y >= 0 /\ y < gameData.m_map.height
    THEN [gameData EXCEPT
            !.m_coinStates[y][x] = coinState,
            !.m_map.tiles[y][x] = IF coinState = COLLECTED_BOTH THEN EMPTY ELSE @]
    ELSE gameData

\* GameData::updatePlayerState: the first player of that id
updatePlayerState(gameData, playerId, state) ==
  LET hits == {i \in 1..Len(gameData.m_players) : gameData.m_players[i].id = playerId}
  IN  IF hits = {} THEN gameData
      ELSE LET first == CHOOSE i \in hits : \A j \in hits : i <= j
           IN  [gameData EXCEPT !.m_players[first].state = state]

\* GameData::updateGameOver
updateGameOver(gameData, winnerId) ==
  [gameData EXCEPT !.m_gameOver = TRUE, !.m_winnerId = winnerId]

\* NetworkClient::handleConnectResponse
handleConnectResponse(c, data) ==
  IF Len(data) < 3 THEN c
  ELSE [c EXCEPT !.m_localPlayerId = data[2], !.m_running = TRUE]

\* NetworkClient::handleMapData, with GameDisplay::updateMap
handleMapData(c, data, build) ==
  IF Len(data) < 5 THEN c
  ELSE
    LET width == data[2] + data[3] * 256
        height == data[4] + data[5] * 256
    IN  IF Len(data) < expectedMapSize(width, height, build) THEN c
        ELSE
          LET sizedTiles == Resize(c.m_map.tiles, height, Vec(width, EMPTY))
              sizedCoins == Resize(c.m_map.coinStates, height, Vec(width, AVAILABLE))
              coinStatesOffset == 5 + width * height
              tiles == [y \in 0..(height - 1) |->
                          [x \in DOMAIN sizedTiles[y] |->
                             IF x < width THEN data[5 + y * width + x + 1]
                             ELSE sizedTiles[y][x]]]
              coins == IF Len(data) >= coinStatesOffset + width * height
                         THEN [y \in 0..(height - 1) |->
                                 [x \in DOMAIN sizedCoins[y] |->
                                    IF x < width
                                      THEN data[coinStatesOffset + y * width + x + 1]
                                      ELSE sizedCoins[y][x]]]
                         ELSE sizedCoins
              map == [width |-> width, height |-> height, tiles |-> tiles,
                      coinStates |-> coins]
          IN  [c EXCEPT !.m_map = map, !.gameData = updateMap(@, map)]

\* NetworkClient::handleGameStart, with GameDisplay::updateGameState
handleGameStart(c, data) ==
  IF Len(data) < 3 THEN c
  ELSE LET players == [i \in 1..data[2] |-> [NewPlayer(-1, i) EXCEPT !.state = PLAYING]]
       IN  [c EXCEPT !.m_players = players, !.gameData.m_players = players]

\* the loop of handleGameStateUpdate from its i-th entry on
RECURSIVE decodePlayers(_, _, _, _)
decodePlayers(players, data, i, playerCount) ==
  IF i >= playerCount THEN players
  ELSE
    LET offset == 2 + i * 10
        playerId == data[offset + 1]
        state == data[offset + 2]
        xFixedPrecision == S16(data[offset + 3], data[offset + 4])
        yFixedPrecision == S16(data[offset + 5], data[offset + 6])
        x == xFixedPrecision * (Unit \div 100)
        y == yFixedPrecision * (Unit \div 100)
        score == data[offset + 7] + data[offset + 8] * 256
        isJetpacking == data[offset + 9] # 0
        hits == {k \in 1..Len(players) : players[k].id = playerId}
        next == IF hits # {}
                  THEN LET playerIt == CHOOSE k \in hits : \A j \in hits : k <= j
                       IN  [players EXCEPT ![playerIt] =
                              [@ EXCEPT !.state = state, !.x = x, !.y = y,
                                        !.score = score, !.jet = isJetpacking]]
                  ELSE Append(players,
                              [NewPlayer(-1, playerId) EXCEPT
                                 !.state = state, !.x = x, !.y = y,
                                 !.score = score, !.jet = isJetpacking])
    IN  decodePlayers(next, data, i + 1, playerCount)

\* NetworkClient::handleGameStateUpdate, with GameDisplay::updateGameState
handleGameStateUpdate(c, data) ==
  IF Len(data) < 2 THEN c
  ELSE IF Len(data) < 2 + data[2] * 10 THEN c
  ELSE LET players == decodePlayers(c.m_players, data, 0, data[2])
       IN  [c EXCEPT !.m_players = players, !.gameData.m_players = players]

\* NetworkClient::handleCoinCollected, with GameDisplay::handleCoinCollected
handleCoinCollected(c, data) ==
  IF Len(data) < 6 THEN c
  ELSE [c EXCEPT !.gameData = updateCoinStates(@, data[3], data[4], data[6])]

\* NetworkClient::handlePlayerDeath, with GameDisplay::handlePlayerDeath
handlePlayerDeath(c, data) ==
  IF Len(data) < 2 THEN c
  ELSE [c EXCEPT !.gameData = updatePlayerState(@, data[2], DEAD)]

\* NetworkClient::handleGameOver, with GameDisplay::handleGameOver
handleGameOver(c, data) ==
  IF Len(data) < 3 THEN c
  ELSE [c EXCEPT !.gameData = updateGameOver(@, IF data[2] # 0 THEN data[3] ELSE -1)]

\* NetworkClient::processPacket; handed records the packet
clientProcessPacket(c, data, build) ==
  LET d == [c EXCEPT !.handed = Append(@, data)]
  IN  IF Len(data) < 1 THEN d
      ELSE CASE data[1] = CONNECT_RESPONSE -> handleConnectResponse(d, data)
             [] data[1] = MAP_DATA -> handleMapData(d, data, build)
             [] data[1] = GAME_START -> handleGameStart(d, data)
             [] data[1] = GAME_STATE_UPDATE -> handleGameStateUpdate(d, data)
             [] data[1] = COIN_COLLECTED -> handleCoinCollected(d, data)
             [] data[1] = PLAYER_DEATH -> handlePlayerDeath(d, data)
             [] data[1] = GAME_OVER -> handleGameOver(d, data)
             [] OTHER -> d

\* the inner loop of networkLoop over the accumulated bytes:
\* [c, processedBytes]
RECURSIVE processBuffer(_, _, _, _)
processBuffer(c, buffer, processedBytes, build) ==
  IF processedBytes >= Len(buffer) THEN [c |-> c, processedBytes |-> processedBytes]
  ELSE
    LET rest == SubSeq(buffer, processedBytes + 1, Len(buffer))
        packetSize == getPacketSize(rest, Len(rest), build)
    IN  IF packetSize = 0 THEN [c |-> c, processedBytes |-> processedBytes]
        ELSE \* the client after the packet, evaluated once
             LET after == CHOOSE r \in {clientProcessPacket(
                                           c, SubSeq(rest, 1, packetSize), build)} : TRUE
             IN  processBuffer(after, buffer, processedBytes + packetSize, build)

\* mutant of eraseProcessed: the buffer is cleared after a pass that
\* processed a packet
eraseProcessed_All(buffer, processedBytes) ==
  IF processedBytes > 0 THEN <<>> ELSE buffer

\* accumulatedBuffer.erase(begin, begin + processedBytes)
eraseProcessed(buffer, processedBytes) ==
  IF processedBytes > 0 THEN SubSeq(buffer, processedBytes + 1, Len(buffer))
  ELSE buffer

(* ---------------------- getPacketSize on its own ----------------------- *)
\* first five bytes of buffers: every tag, and for the tags with a length
\* field some values of it (MAP_DATA: 5 x 3, 2 x 3, 0 x 0, 46341 x 46341,
\* 65535 x 65535)
SizeHeaders ==
  {<<MAP_DATA>> \o addShort(d[1]) \o addShort(d[2]) :
     d \in {<<5, 3>>, <<2, 3>>, <<0, 0>>, <<46341, 46341>>, <<65535, 65535>>}}
  \cup {<<GAME_STATE_UPDATE, n, 1, 2, 0>> : n \in {0, 1, 2, 255}}
  \cup {<<t, 1, 0, 0, 0>> : t \in (0..12 \cup {99, 255}) \ {MAP_DATA, GAME_STATE_UPDATE}}

\* numbers of bytes available at the pointer
SizeLengths ==
  {0, 1, 2, 3, 4, 5, 6, 7, 12, 16, 17, 21, 22, 23, 34, 35, 36, 2551, 2552,
   9270, 9271, 9272}

Min(a, b) == IF a < b THEN a ELSE b

\* a buffer handed to getPacketSize
InitSizes ==
  /\ mapFile = MapTwoCoins
  /\ m_map = loadMap(mapFile, EmptyMap).map
  /\ m_players = <<>>
  /\ m_pollfds = <<m_serverSocket>>
  /\ openFds = {m_serverSocket}
  /\ m_gameState = WAITING_FOR_PLAYERS
  /\ cursor = 1
  /\ fresh = {}
  /\ inputsUsed = 0
  /\ extra = 0
  /\ credited = NoCredit
  /\ issued = {}
  /\ client = ClientStart
  /\ \E header \in SizeHeaders, maxSize \in SizeLengths :
        step = Did("buffer", <<>>, FALSE,
                   <<[data |-> SubSeq(header, 1, Min(maxSize, 5)),
                      maxSize |-> maxSize]>>, <<>>)

\* the call getPacketSize(data, maxSize) of networkLoop; step.log holds the
\* arguments and the size returned
ApplyGetPacketSize ==
  /\ step.op = "buffer"
  /\ \E build \in Builds :
        step' = Did("getPacketSize", <<>>, FALSE,
                    <<[data |-> step.log[1].data, maxSize |-> step.log[1].maxSize,
                       size |-> getPacketSize(step.log[1].data, step.log[1].maxSize,
                                              build)]>>, <<>>)
  /\ UNCHANGED <<client, mapFile, m_map, m_players, m_pollfds, openFds, m_gameState,
                 cursor, fresh, inputsUsed, extra, credited, issued>>

SizeSpec == InitSizes /\ [][ApplyGetPacketSize]_vars

(* ------------------------- the receive loop ---------------------------- *)
\* constexpr size_t BUFFER_SIZE
BUFFER_SIZE == 1024

\* numbers of bytes a recv returns, besides all that is queued
ChunkSizes == {1, 2, 3, 7, 24}

\* a map file of one row, 328 tiles wide
MapLong == << [i \in 1..328 |-> "_"] >>
ClientMapFiles == {MapTwoCoins, MapLong}

RECURSIVE Flatten(_)
Flatten(seqs) == IF seqs = <<>> THEN <<>> ELSE Head(seqs) \o Flatten(Tail(seqs))

\* tables of a match in progress: the client's player anywhere from the
\* spawn to 0.3 before the end of the map, the other player beside it
SnapshotTables(map) ==
  LET top == (map.height - 1) * Unit
  IN  { << [sock |-> 1, id |-> 1, x |-> x, y |-> y, vy |-> 0, jet |-> jet,
            score |-> score, state |-> st],
           [sock |-> 2, id |-> 2, x |-> x, y |-> 0, vy |-> 0, jet |-> FALSE,
            score |-> 0, state |-> PLAYING] >> :
          x \in {1 * Unit, map.width * Unit - 300},
          y \in {0, IF top >= 5 THEN top - 5 ELSE 0},
          jet \in BOOLEAN, score \in {0, 1}, st \in {PLAYING, DEAD} }

\* what the server writes to a client that connects second
ScriptJoin(players, map) ==
  << serialize(sendConnectResponse(players, 1, 1)),
     serialize(sendMapData(map, 1)),
     serialize(broadcastGameStart(players)),
     serialize(broadcastGameState(players)) >>

\* what the server writes in a tick: checkCollisions, broadcastGameState,
\* checkGameEnd
ScriptTick(players, map) ==
  (IF players[1].score > 0 /\ map.width > 1 /\ map.tiles[0][1] = COIN
     THEN <<serialize(broadcastCoinCollected(players, 1, 1, 0, COLLECTED_P1))>>
     ELSE <<>>)
  \o (IF players[1].state = DEAD
        THEN <<serialize(broadcastPlayerDeath(players, 1))>> ELSE <<>>)
  \o <<serialize(broadcastGameState(players))>>
  \o (IF players[1].state = DEAD
        THEN <<serialize(broadcastGameOver(players, 2))>> ELSE <<>>)

\* bytes that begin with a tag the client gives no size
UnsizedBytes ==
  {<<99>>, <<CONNECT_REQUEST, 0>>, <<PLAYER_POSITION, 1>>, <<PLAYER_DISCONNECT>>}

\* a stream with such bytes between two snapshots
ScriptStalled(players, bad) ==
  <<serialize(broadcastGameState(players)), bad, serialize(broadcastGameState(players))>>

Scripts(players, map) ==
  (IF map.width * map.height <= 6 THEN {ScriptJoin(players, map)} ELSE {})
  \cup {ScriptTick(players, map)}
  \cup {ScriptStalled(players, bad) : bad \in UnsizedBytes}

\* a client whose socket holds bytes of a match
InitClient ==
  /\ mapFile \in ClientMapFiles
  /\ m_map = loadMap(mapFile, EmptyMap).map
  /\ m_players \in SnapshotTables(m_map)
  /\ m_pollfds = <<m_serverSocket, 1, 2>>
  /\ openFds = {m_serverSocket, 1, 2}
  /\ m_gameState = IN_PROGRESS
  /\ cursor = 1
  /\ fresh = {}
  /\ inputsUsed = 0
  /\ extra = 0
  /\ credited = NoCredit
  /\ issued = {1, 2}
  /\ \E script \in Scripts(m_players, m_map) :
        client = [ClientStart EXCEPT !.wire = Flatten(script), !.script = script]
  /\ step = Did("connected", <<>>, FALSE, <<>>, <<>>)

\* one pass of the loop of networkLoop in which recv returns bytes:
\* sendPlayerInput when the interval has passed, recv, the inner loop, erase
NetworkRead ==
  /\ client.m_running
  /\ client.wire # <<>>
  /\ \E k \in (ChunkSizes \cup {Len(client.wire)}), build \in Builds,
         input \in {<<>>, <<0>>, <<1>>} :
        /\ k <= Len(client.wire)
        /\ k <= BUFFER_SIZE
        /\ \E r \in {processBuffer(client, client.accumulatedBuffer
                                              \o SubSeq(client.wire, 1, k), 0, build)} :
              client' = [r.c EXCEPT
                           !.wire = SubSeq(client.wire, k + 1, Len(client.wire)),
                           !.accumulatedBuffer =
                              eraseProcessed(client.accumulatedBuffer
                                               \o SubSeq(client.wire, 1, k),
                                             r.processedBytes)]
        /\ step' = Did("networkLoop",
                       IF input = <<>> THEN <<>>
                       ELSE <<[type |-> PLAYER_INPUT, data |-> input, to |-> {"server"}]>>,
                       FALSE, <<>>, <<>>)
  /\ UNCHANGED <<mapFile, m_map, m_players, m_pollfds, openFds, m_gameState,
                 cursor, fresh, inputsUsed, extra, credited, issued>>

ClientSpec == InitClient /\ [][NetworkRead]_vars

(* ------------------ GameData under its two threads --------------------- *)
\* member functions that return a copy of a field
Getters ==
  {"getMap", "getCoinStates", "getPlayers", "getLocalPlayerId", "isGameOver",
   "getWinnerId"}

\* the field a getter returns
FieldOf(gameData, fn) ==
  CASE fn = "getMap" -> gameData.m_map
    [] fn = "getCoinStates" -> gameData.m_coinStates
    [] fn = "getPlayers" -> gameData.m_players
    [] fn = "getLocalPlayerId" -> gameData.m_localPlayerId
    [] fn = "isGameOver" -> gameData.m_gameOver
    [] fn = "getWinnerId" -> gameData.m_winnerId

\* statements in the body of a member function, after the lock_guard
StatementsOf(fn) ==
  CASE fn = "updateMap" -> 3
    [] fn = "updateCoinStates" -> 2
    [] fn = "updateGameOver" -> 2
    [] OTHER -> 1

\* GameData after the k-th statement of the body of fn
Statement(gameData, fn, arg, k) ==
  CASE fn = "updateMap" /\ k = 1 -> [gameData EXCEPT !.m_map = arg[1]]
    [] fn = "updateMap" /\ k = 2 ->
         [gameData EXCEPT !.m_coinStates =
            Resize(@, arg[1].height, Vec(arg[1].width, AVAILABLE))]
    [] fn = "updateMap" /\ k = 3 ->
         IF arg[1].coinStates = <<>> THEN gameData
         ELSE [gameData EXCEPT !.m_coinStates =
                 [y \in 0..(arg[1].height - 1) |->
                    [x \in DOMAIN gameData.m_coinStates[y] |->
                       IF x < arg[1].width THEN arg[1].coinStates[y][x]
                       ELSE gameData.m_coinStates[y][x]]]]
    [] fn = "updateCoinStates" /\ k = 1 ->
         IF arg[1] >= 0 /\ arg[1] < gameData.m_map.width
            /\ arg[2] >= 0 /\ arg[2] < gameData.m_map.height
           THEN [gameData EXCEPT !.m_coinStates[arg[2]][arg[1]] = arg[3]]
           ELSE gameData
    [] fn = "updateCoinStates" /\ k = 2 ->
         IF arg[1] >= 0 /\ arg[1] < gameData.m_map.width
            /\ arg[2] >= 0 /\ arg[2] < gameData.m_map.height
            /\ arg[3] = COLLECTED_BOTH
           THEN [gameData EXCEPT !.m_map.tiles[arg[2]][arg[1]] = EMPTY]
           ELSE gameData
    [] fn = "updatePlayers" -> [gameData EXCEPT !.m_players = arg[1]]
    [] fn = "updatePlayerState" -> updatePlayerState(gameData, arg[1], arg[2])
    [] fn = "setLocalPlayerId" -> [gameData EXCEPT !.m_localPlayerId = arg[1]]
    [] fn = "updateGameOver" /\ k = 1 -> [gameData EXCEPT !.m_gameOver = TRUE]
    [] fn = "updateGameOver" /\ k = 2 -> [gameData EXCEPT !.m_winnerId = arg[1]]
    [] OTHER -> gameData

\* the player list of handleGameStart for two players
StartedPlayers == [i \in 1..2 |-> [NewPlayer(-1, i) EXCEPT !.state = PLAYING]]

\* calls of the network thread: the handlers of GameDisplay that
\* processPacket reaches
NetworkCalls ==
  { <<"updateMap", <<loadMap(MapTwoCoins, EmptyMap).map>>>>,
    <<"getMap", <<>>>>,
    <<"updatePlayers", <<StartedPlayers>>>>,
    <<"updateCoinStates", <<1, 0, COLLECTED_BOTH>>>>,
    <<"getPlayers", <<>>>>,
    <<"getLocalPlayerId", <<>>>>,
    <<"updatePlayerState", <<1, DEAD>>>>,
    <<"updateGameOver", <<1>>>>,
    <<"updateGameOver", <<-1>>>> }

\* calls of the main thread: start() and the drawing functions of run()
RenderCalls ==
  { <<"setLocalPlayerId", <<2>>>> } \cup {<<fn, <<>>>> : fn \in Getters}

\* mutant of CanLock: the lock is taken whoever holds it
CanLock_Always(mutex) == TRUE

\* std::lock_guard lock(m_dataMutex) returns only when the mutex is free
CanLock(mutex) == mutex = "free"

\* a display and its two threads, none of them in GameData; step.log holds
\* GameData as the member function that returned last left it
InitGameData ==
  /\ mapFile = MapTwoCoins
  /\ m_map = loadMap(mapFile, EmptyMap).map
  /\ m_players = <<>>
  /\ m_pollfds = <<m_serverSocket>>
  /\ openFds = {m_serverSocket}
  /\ m_gameState = WAITING_FOR_PLAYERS
  /\ cursor = 1
  /\ fresh = {}
  /\ inputsUsed = 0
  /\ extra = 0
  /\ credited = NoCredit
  /\ issued = {}
  /\ client = ClientStart
  /\ step = Did("display", <<>>, FALSE, <<GameDataStart>>, <<>>)

ServerUnchanged ==
  UNCHANGED <<mapFile, m_map, m_players, m_pollfds, openFds, m_gameState,
              cursor, fresh, inputsUsed, extra, credited, issued>>

\* a thread enters a member function of GameData
CallMember ==
  /\ \E t \in Threads :
        /\ client.calls[t] = Outside
        /\ \E call \in (IF t = "network" THEN NetworkCalls ELSE RenderCalls) :
              client' = [client EXCEPT !.calls[t] =
                           [fn |-> call[1], arg |-> call[2], pc |-> 0, ret |-> <<>>]]
  /\ step' = [step EXCEPT !.op = "call"]
  /\ ServerUnchanged

\* std::lock_guard lock(m_dataMutex)
AcquireLock ==
  /\ \E t \in Threads :
        /\ client.calls[t].fn # ""
        /\ client.calls[t].pc = 0
        /\ CanLock(client.m_dataMutex)
        /\ client' = [client EXCEPT !.m_dataMutex = t, !.calls[t].pc = 1]
  /\ step' = [step EXCEPT !.op = "lock"]
  /\ ServerUnchanged

\* the next statement of the body
ExecuteStatement ==
  /\ \E t \in Threads :
        LET call == client.calls[t]
        IN  /\ call.pc >= 1
            /\ call.pc <= StatementsOf(call.fn)
            /\ client' =
                 [client EXCEPT
                    !.gameData = Statement(@, call.fn, call.arg, call.pc),
                    !.calls[t].pc = call.pc + 1,
                    !.calls[t].ret = IF call.fn \in Getters
                                       THEN <<FieldOf(client.gameData, call.fn)>>
                                       ELSE <<>>]
  /\ step' = [step EXCEPT !.op = "statement"]
  /\ ServerUnchanged

\* the member function returns: ~lock_guard
ReleaseLock ==
  /\ \E t \in Threads :
        LET call == client.calls[t]
        IN  /\ call.pc = StatementsOf(call.fn) + 1
            /\ client' = [client EXCEPT
                            !.m_dataMutex = "free",
                            !.calls[t] = Outside]
  /\ step' = Did("unlock", <<>>, FALSE, <<client.gameData>>, <<>>)
  /\ ServerUnchanged

GameDataSteps ==
  \/ CallMember
  \/ AcquireLock
  \/ ExecuteStatement
  \/ ReleaseLock

GameDataSpec == InitGameData /\ [][GameDataSteps]_vars

TypeOK ==
  /\ m_gameState \in {WAITING_FOR_PLAYERS, IN_PROGRESS, GAME_OVER_STATE}
  /\ cursor \in 1..(Len(m_pollfds) + 2)
  /\ m_pollfds[1] = m_serverSocket

(* ------------------------- vocabulary of the claims -------------------- *)
\* tiles as the map file gives them
FileTiles == loadMap(mapFile, EmptyMap).map.tiles

Cells == {c \in (0..(m_map.width - 1)) \X (0..(m_map.height - 1)) : TRUE}

\* the GAME_OVER packets the last handler wrote
GameOverSent == {i \in 1..Len(step.sent) : step.sent[i].type = GAME_OVER}

\* the last handler was a tick whose checkGameEnd ended the match
MatchEnded == step.ended # <<>>

EndedDead == {i \in 1..Len(step.ended) : step.ended[i].state = DEAD}

EndedTop ==
  {i \in 1..Len(step.ended) :
     \A j \in 1..Len(step.ended) : step.ended[j].score <= step.ended[i].score}

\* the single GAME_OVER packet of a tick that ended the match
EndPacket == step.sent[CHOOSE i \in GameOverSent : TRUE]

(* -------------------------------- C1 ----------------------------------- *)
\* C1: in every reachable state the player table holds at most 2 players
\* (MAX_CLIENTS), whatever the session state acceptNewClient runs in.
C1_AtMostTwoPlayers == Len(m_players) <= MAX_CLIENTS

(* -------------------------------- C2 ----------------------------------- *)
\* C2: whenever the session state is GameOver, the server eventually resets
\* and is WaitingForPlayers again, given that the loop keeps ticking.
C2_GameOverLeadsToWaiting ==
  (m_gameState = GAME_OVER_STATE) ~> (m_gameState = WAITING_FOR_PLAYERS)

(* -------------------------------- C3 ----------------------------------- *)
\* C3: after resetGame every cell of the coin-state grid is Available and
\* every tile is the tile of the map file.
C3_ResetRestoresMap ==
  step.reset =>
    \A c \in Cells :
      /\ m_map.coinStates[c[2]][c[1]] = AVAILABLE
      /\ m_map.tiles[c[2]][c[1]] = FileTiles[c[2]][c[1]]

(* -------------------------------- C4 ----------------------------------- *)
\* C4: within one match a coin cell raises a given player's score at most
\* once: no cell is credited twice to a player, and a pass of checkCollisions
\* over a player already credited for its cell leaves its score alone.
C4_CoinDedupe ==
  /\ \A k \in DOMAIN credited : credited[k] <= 1
  /\ \A i \in 1..Len(step.log) :
       /\ step.log[i].scoreTo - step.log[i].scoreFrom \in {0, 1}
       /\ step.log[i].creditedBefore => step.log[i].scoreTo = step.log[i].scoreFrom

\* a tick in which a player stands on a coin cell it was credited for earlier,
\* while the other player is credited for the same cell
C4_Witness ==
  \E i \in 1..Len(step.log) :
    /\ step.log[i].creditedBefore
    /\ FileTiles[step.log[i].y][step.log[i].x] = COIN
    /\ \E k \in DOMAIN credited :
         k[1] # step.log[i].sock /\ k[2] = step.log[i].x /\ k[3] = step.log[i].y

(* -------------------------------- C5 ----------------------------------- *)
CoinMoves ==
  { <<AVAILABLE, COLLECTED_P1, 1>>, <<AVAILABLE, COLLECTED_P2, 2>>,
    <<COLLECTED_P1, COLLECTED_BOTH, 2>>, <<COLLECTED_P2, COLLECTED_BOTH, 1>> }

\* C5: every change of a cell's coin-state made by a pass of checkCollisions
\* is Available->P1 by player 1, Available->P2 by player 2, P1->Both by
\* player 2 or P2->Both by player 1; the tile goes from Coin to Empty exactly
\* in the passes that enter Both and is unchanged in every other pass.
C5_CoinTransitions ==
  \A i \in 1..Len(step.log) :
    LET e == step.log[i]
        entersBoth == e.coinFrom # COLLECTED_BOTH /\ e.coinTo = COLLECTED_BOTH
    IN  /\ e.coinFrom # e.coinTo => <<e.coinFrom, e.coinTo, e.id>> \in CoinMoves
        /\ entersBoth => e.tileFrom = COIN /\ e.tileTo = EMPTY
        /\ ~entersBoth => e.tileTo = e.tileFrom

\* a tick in which one pass takes a coin from Available and another pass
\* enters Both on it
C5_Witness ==
  \E i, j \in 1..Len(step.log) :
    /\ step.log[i].coinFrom = AVAILABLE /\ step.log[i].coinTo # AVAILABLE
    /\ step.log[j].coinTo = COLLECTED_BOTH /\ step.log[j].tileTo = EMPTY
    /\ step.log[j].tileFrom = COIN

(* -------------------------------- C6 ----------------------------------- *)
\* C6: in every match, a pass of checkCollisions over a Playing player whose
\* cell is a coin of the map file that this player has not been credited for
\* in this match raises its score by exactly 1 and writes one COIN_COLLECTED
\* carrying the coin-state the cell has after the pass.
C6_DoubleClaim ==
  \A i \in 1..Len(step.log) :
    LET e == step.log[i]
    IN  (FileTiles[e.y][e.x] = COIN /\ ~e.creditedBefore) =>
          /\ e.scoreTo = e.scoreFrom + 1
          /\ Len(e.pkts) = 1
          /\ e.pkts[1].type = COIN_COLLECTED
          /\ e.pkts[1].data[1] = e.id
          /\ e.pkts[1].data[5] = e.coinTo

(* -------------------------------- C7 ----------------------------------- *)
\* C7: when a match ends in a tick in which some player is Dead, GAME_OVER
\* names a winner, the winner is a player that is not Dead, and no Dead
\* player's id is the winner's.
C7_WinnerNotDead ==
  (MatchEnded /\ EndedDead # {}) =>
    /\ EndPacket.data[1] = 1
    /\ \E i \in 1..Len(step.ended) :
         step.ended[i].state # DEAD /\ step.ended[i].id = EndPacket.data[2]
    /\ \A i \in EndedDead : step.ended[i].id # EndPacket.data[2]

(* -------------------------------- C8 ----------------------------------- *)
\* the case of C8: a match ended with no death and the highest score is shared
C8_Tie == MatchEnded /\ EndedDead = {} /\ Cardinality(EndedTop) >= 2

EndedStrictTop ==
  {i \in 1..Len(step.ended) :
     \A j \in 1..Len(step.ended) : j # i => step.ended[j].score < step.ended[i].score}

\* C9: when a match ends with no death and one player's score is strictly the
\* highest, GAME_OVER carries flag 1 and that player's id, wherever the player
\* stands in the iteration order.
C9_HighestScoreWins ==
  (MatchEnded /\ EndedDead = {}) =>
    \A i \in EndedStrictTop : EndPacket.data = <<1, step.ended[i].id>>

\* a match ended with no death whose strict top scorer is not met first
C9_Witness ==
  /\ MatchEnded
  /\ EndedDead = {}
  /\ \E i \in EndedStrictTop : i > 1

(* -------------------------------- C10 ---------------------------------- *)
\* the step removes a client from the table without a reset: a disconnect
Disconnects == Len(m_players') < Len(m_players) /\ ~step'.reset

ActiveLeft == {i \in 1..Len(m_players') : m_players'[i].state \in {READY, PLAYING}}

\* C10: a disconnect while InProgress that leaves fewer than 2 active players
\* makes the session GameOver and writes one GAME_OVER with flag 0 to every
\* remaining client; a disconnect while WaitingForPlayers leaves the session
\* state alone and writes no GAME_OVER.
C10_DisconnectEndsMatch ==
  [][ /\ (Disconnects /\ m_gameState = IN_PROGRESS /\ Cardinality(ActiveLeft) < MIN_PLAYERS)
         => /\ m_gameState' = GAME_OVER_STATE
            /\ step'.sent = <<[type |-> GAME_OVER, data |-> <<0, 0>>,
                               to |-> PlayerSocks(m_players')]>>
      /\ (Disconnects /\ m_gameState = WAITING_FOR_PLAYERS)
         => /\ m_gameState' = WAITING_FOR_PLAYERS
            /\ step'.sent = <<>> ]_vars

\* a disconnect has just ended a match in which a client remains
C10_Witness ==
  /\ step.op \in {"data", "hangup"}
  /\ m_gameState = GAME_OVER_STATE
  /\ Len(step.sent) = 1
  /\ step.sent[1].type = GAME_OVER
  /\ step.sent[1].to # {}
  /\ \E i \in 1..Len(m_players) : m_players[i].state = PLAYING

(* -------------------------------- C11 ---------------------------------- *)
\* C11: the ids of the players in the table are pairwise distinct, and an
\* accept step of a session whose match has started hands out no id that a
\* client of that match was given before.
C11_IdsDistinct ==
  [][ /\ \A i, j \in 1..Len(m_players') :
           i # j => m_players'[i].id # m_players'[j].id
      /\ (step'.op = "accept" /\ m_gameState # WAITING_FOR_PLAYERS)
           => step'.sent[1].data[1] \notin issued ]_vars

(* -------------------------------- C12 ---------------------------------- *)
\* C12: an accept step taken while WaitingForPlayers with k-1 players in the
\* table (k = 1, 2) gives the new client id k, writes to it CONNECT_RESPONSE
\* <<k, k>> and then MAP_DATA before anything else, writes no GAME_START for
\* k = 1 and writes GAME_START right after the MAP_DATA for k = 2.
C12_ConnectSequence ==
  [][ (step'.op = "accept" /\ m_gameState = WAITING_FOR_PLAYERS
        /\ Len(m_players) < MIN_PLAYERS)
      => LET k == Len(m_players) + 1
             sock == m_pollfds'[Len(m_pollfds')]
             sent == step'.sent
         IN  /\ \E i \in 1..Len(m_players') :
                   m_players'[i].sock = sock /\ m_players'[i].id = k
             /\ Len(sent) >= 2
             /\ sent[1] = [type |-> CONNECT_RESPONSE, data |-> <<k, k>>, to |-> {sock}]
             /\ sent[2].type = MAP_DATA /\ sent[2].to = {sock}
             /\ k = 1 => Len(sent) = 2
             /\ k = 2 => /\ Len(sent) > 2
                         /\ sent[3].type = GAME_START
                         /\ sock \in sent[3].to ]_vars

\* the second accept of a session has just been answered and started the match
C12_Witness ==
  /\ step.op = "accept"
  /\ Len(step.sent) > 2
  /\ step.sent[1].type = CONNECT_RESPONSE
  /\ step.sent[1].data = <<2, 2>>
  /\ step.sent[3].type = GAME_START

(* -------------------------------- C13 ---------------------------------- *)
\* the step takes the session from WaitingForPlayers to InProgress
Starts == m_gameState = WAITING_FOR_PLAYERS /\ m_gameState' = IN_PROGRESS

\* C13: the session becomes InProgress exactly in the accept steps taken
\* while WaitingForPlayers that bring the table to at least 2 players, and
\* never from another state; in such a step every player is Ready at
\* (1, height - 2) and the last two packets written are GAME_START
\* <<table size, 0>> and then GAME_STATE_UPDATE, both to every player.
C13_StartTransition ==
  [][ /\ (m_gameState # IN_PROGRESS /\ m_gameState' = IN_PROGRESS) => Starts
      /\ Starts <=> (/\ step'.op = "accept"
                     /\ m_gameState = WAITING_FOR_PLAYERS
                     /\ Len(m_players') >= MIN_PLAYERS)
      /\ Starts =>
           LET n == Len(step'.sent)
           IN  /\ \A i \in 1..Len(m_players') :
                     /\ m_players'[i].state = READY
                     /\ m_players'[i].x = 1 * Unit
                     /\ m_players'[i].y = (m_map.height - 2) * Unit
               /\ n >= 2
               /\ step'.sent[n - 1] =
                    [type |-> GAME_START, data |-> <<Len(m_players'), 0>>,
                     to |-> PlayerSocks(m_players')]
               /\ step'.sent[n].type = GAME_STATE_UPDATE
               /\ step'.sent[n].data[1] = Len(m_players')
               /\ step'.sent[n].to = PlayerSocks(m_players')
               /\ \A i \in 1..(n - 2) :
                     step'.sent[i].type \notin {GAME_START, GAME_STATE_UPDATE} ]_vars

\* an accept has just started a match: two Ready players at the spawn
C13_Witness ==
  /\ step.op = "accept"
  /\ m_gameState = IN_PROGRESS
  /\ Len(m_players) = MIN_PLAYERS
  /\ \A i \in 1..Len(m_players) :
        m_players[i].state = READY /\ m_players[i].x = Unit
  /\ \E i \in 1..Len(step.sent) : step.sent[i].type = GAME_STATE_UPDATE

(* -------------------------------- C14 ---------------------------------- *)
\* the players that the step takes from Ready to Playing
Promoted ==
  {i \in 1..Len(m_players) :
     /\ m_players[i].state = READY
     /\ \E j \in 1..Len(m_players') :
          m_players'[j].sock = m_players[i].sock /\ m_players'[j].state = PLAYING}

\* C14: a step that takes a player from Ready to Playing is a tick that takes
\* every Ready player to Playing, changes nothing else in the table, leaves
\* the map alone, runs no pass of checkCollisions and writes one
\* GAME_STATE_UPDATE; and after every step no player is Ready while another
\* one is Playing.
C14_SynchronizedStart ==
  [][ /\ Promoted # {} =>
           /\ step'.op = "tick"
           /\ m_players' = [i \in 1..Len(m_players) |->
                               [m_players[i] EXCEPT !.state =
                                  IF @ = READY THEN PLAYING ELSE @]]
           /\ \A i \in 1..Len(m_players') : m_players'[i].state = PLAYING
           /\ m_map' = m_map
           /\ step'.log = <<>>
           /\ Len(step'.sent) = 1
           /\ step'.sent[1].type = GAME_STATE_UPDATE
      /\ ~ \E i, j \in 1..Len(m_players') :
             m_players'[i].state = READY /\ m_players'[j].state = PLAYING ]_vars

\* the tick of the synchronized start has just run: both players Playing, still
\* at the spawn
C14_Witness ==
  /\ step.op = "tick"
  /\ step.log = <<>>
  /\ Len(m_players) = MIN_PLAYERS
  /\ \A i \in 1..Len(m_players) :
        /\ m_players[i].state = PLAYING
        /\ m_players[i].x = 1 * Unit
        /\ m_players[i].y = (m_map.height - 2) * Unit

(* -------------------------------- C15 ---------------------------------- *)
\* the table a tick leaves after its physics and collisions: the one
\* checkGameEnd ended the match on, or else the table after the tick
AfterTick == IF step'.reset THEN step'.ended ELSE m_players'

\* the players of a table that are still in the match
ActiveIn(players) ==
  {i \in 1..Len(players) : players[i].state \in {READY, PLAYING, FINISHED}}

\* C15: a tick taken while InProgress ends the match (checkGameEnd writes
\* GAME_OVER and resets) if and only if, in the table after its physics and
\* collisions, every active player is Finished and there is one, or a player
\* is Dead, or fewer than 2 players are active while the table holds 2.
C15_EndConditions ==
  [][ (step'.op = "tick" /\ m_gameState = IN_PROGRESS) =>
        LET after == AfterTick
            active == ActiveIn(after)
            ends == \/ active # {} /\ \A i \in active : after[i].state = FINISHED
                    \/ \E i \in 1..Len(after) : after[i].state = DEAD
                    \/ Cardinality(active) < MIN_PLAYERS /\ Len(after) >= MIN_PLAYERS
        IN  /\ step'.reset <=> ends
            /\ step'.reset <=> (\E i \in 1..Len(step'.sent) :
                                  step'.sent[i].type = GAME_OVER) ]_vars

\* a tick has just ended a match at the finish line: every player Finished
C15_Witness ==
  /\ step.op = "tick"
  /\ step.reset
  /\ Len(step.ended) >= MIN_PLAYERS
  /\ \A i \in 1..Len(step.ended) : step.ended[i].state = FINISHED
  /\ GameOverSent # {}

(* -------------------------------- C16 ---------------------------------- *)
\* C16: updatePlayers makes a Playing player Finished exactly when its x
\* after the physics step is >= the map width, leaves it Playing otherwise
\* and leaves every player that is not Playing as it is; checkCollisions
\* leaves a Finished player as it is and makes no pass for it; no player is
\* Finished short of the map width.
C16_FinishDetection ==
  [][ /\ step'.op = "updatePlayers" =>
           \A i \in 1..Len(m_players) :
             LET p == m_players[i]
                 q == m_players'[i]
             IN  /\ p.state = PLAYING =>
                       /\ q.state \in {PLAYING, FINISHED}
                       /\ q.state = FINISHED <=> q.x >= m_map.width * Unit
                       /\ q.x # p.x
                 /\ p.state # PLAYING => q = p
      /\ step'.op = "checkCollisions" =>
           \A i \in 1..Len(m_players) :
             m_players[i].state = FINISHED =>
               /\ m_players'[i] = m_players[i]
               /\ \A k \in 1..Len(step'.log) :
                     step'.log[k].sock # m_players[i].sock
      /\ \A i \in 1..Len(m_players') :
           m_players'[i].state = FINISHED => m_players'[i].x >= m_map'.width * Unit
    ]_vars

\* both steps have run on a table in which one player has just reached the
\* map width exactly while the other one, still Playing, had its pass
C16_Witness ==
  /\ step.op = "checkCollisions"
  /\ \E i, j \in 1..Len(m_players) :
        /\ m_players[i].state = FINISHED
        /\ m_players[i].x = m_map.width * Unit
        /\ m_players[i].vy # 0
        /\ m_players[j].state = PLAYING
        /\ \E k \in 1..Len(step.log) : step.log[k].sock = m_players[j].sock

(* -------------------------------- C17 ---------------------------------- *)
\* C17: updatePlayers adds exactly HORIZONTAL_SPEED to the x of every Playing
\* player, whatever its jetpack flag, its velocity and the clamping of its
\* y, and checkCollisions changes no x: the x of a Playing player never
\* decreases.
C17_XMonotone ==
  [][ \A i \in 1..Len(m_players) :
        m_players[i].state = PLAYING =>
          /\ m_players'[i].x >= m_players[i].x
          /\ step'.op = "updatePlayers" =>
                m_players'[i].x = m_players[i].x + HORIZONTAL_SPEED
          /\ step'.op = "checkCollisions" => m_players'[i].x = m_players[i].x
    ]_vars

\* updatePlayers has moved a player whose jetpack is on and whose y was
\* clamped at the top of the map, and another one whose jetpack is off
C17_Witness ==
  /\ step.op = "updatePlayers"
  /\ \E i, j \in 1..Len(m_players) :
        /\ m_players[i].state = PLAYING /\ m_players[i].jet
        /\ m_players[i].y = 0 /\ m_players[i].vy = 0
        /\ m_players[i].x = 1950
        /\ m_players[j].state = PLAYING /\ ~m_players[j].jet
        /\ m_players[j].x = 1050

(* -------------------------------- C18 ---------------------------------- *)
\* the packet the step processed
Packet == step'.log[1]

\* the players of the table that hold the packet's descriptor and are Playing
PlayingSender ==
  {i \in 1..Len(m_players) :
     m_players[i].sock = Packet.sock /\ m_players[i].state = PLAYING}

\* C18: a PLAYER_INPUT packet with a flag byte, read from the descriptor of
\* a Playing player, sets that player's jetpack flag to (flag # 0) and
\* changes nothing else; read from any other descriptor it changes nothing
\* at all; in both cases the map, the registered descriptors and the session
\* state stay as they are and nothing is written.
C18_PlayerInputFrame ==
  [][ (step'.op = "processPacket" /\ Len(Packet.data) >= 2
        /\ Packet.data[1] = PLAYER_INPUT)
      => /\ \A i \in PlayingSender :
               m_players' = [m_players EXCEPT ![i].jet = (Packet.data[2] # 0)]
         /\ PlayingSender = {} => m_players' = m_players
         /\ m_map' = m_map
         /\ m_pollfds' = m_pollfds
         /\ m_gameState' = m_gameState
         /\ step'.sent = <<>> ]_vars

\* a PLAYER_INPUT with flag 1 has been processed for the second player, who
\* is Playing and now has the jetpack on, next to a Dead first player
C18_Witness ==
  /\ step.op = "processPacket"
  /\ step.log[1] = [sock |-> 2, data |-> <<PLAYER_INPUT, 1>>]
  /\ \E i, j \in 1..Len(m_players) :
        /\ m_players[i].sock = 2 /\ m_players[i].state = PLAYING /\ m_players[i].jet
        /\ m_players[j].sock = 1 /\ m_players[j].state = DEAD

(* -------------------------------- C19 ---------------------------------- *)
\* C19: after a tick that ran resetGame the player table is empty, the only
\* registered descriptor is the listening socket, the session is
\* WaitingForPlayers and the descriptor of every player the match ended with
\* is closed.
C19_ResetPostcondition ==
  step.reset =>
    /\ m_players = <<>>
    /\ m_pollfds = <<m_serverSocket>>
    /\ m_gameState = WAITING_FOR_PLAYERS
    /\ \A i \in 1..Len(step.ended) : step.ended[i].sock \notin openFds

\* resetGame has just run on a table of three players
C19_Witness ==
  /\ step.reset
  /\ Len(step.ended) = 3
  /\ m_players = <<>>

(* -------------------------------- C20 ---------------------------------- *)
\* the GAME_OVER packets the step wrote
GameOverWritten ==
  {i \in 1..Len(step'.sent) : step'.sent[i].type = GAME_OVER}

\* C20: a step that changes the session state is an accept that takes it
\* from WaitingForPlayers to InProgress, or a disconnect that takes it from
\* InProgress to GameOver and writes GAME_OVER, or a tick whose checkGameEnd
\* takes it from InProgress through GameOver back to WaitingForPlayers,
\* having written GAME_OVER to the players of the match before resetGame
\* dropped them, or a reset from GameOver to WaitingForPlayers; no step goes
\* from WaitingForPlayers to GameOver or from GameOver to InProgress.
C20_SessionTransitions ==
  [][ m_gameState' # m_gameState =>
        \/ /\ m_gameState = WAITING_FOR_PLAYERS /\ m_gameState' = IN_PROGRESS
           /\ step'.op = "accept"
        \/ /\ m_gameState = IN_PROGRESS /\ m_gameState' = GAME_OVER_STATE
           /\ step'.op \in {"data", "disconnect", "hangup"}
           /\ GameOverWritten # {}
        \/ /\ m_gameState \in {IN_PROGRESS, GAME_OVER_STATE}
           /\ m_gameState' = WAITING_FOR_PLAYERS
           /\ step'.op = "tick" /\ step'.reset
           /\ \E i \in GameOverWritten :
                 step'.sent[i].to = PlayerSocks(step'.ended) /\ step'.sent[i].to # {}
    ]_vars

\* a tick has just ended a match on a death, written GAME_OVER to its players
\* and reset the session
C20_Witness ==
  /\ step.op = "tick"
  /\ step.reset
  /\ m_gameState = WAITING_FOR_PLAYERS
  /\ EndedDead # {}
  /\ EndPacket.to = PlayerSocks(step.ended)

(* -------------------------------- C21 ---------------------------------- *)
\* the client descriptors registered for polling after the step
ClientFds == {m_pollfds'[i] : i \in 2..Len(m_pollfds')}

\* the sockets the step removed from the player table
Leavers == PlayerSocks(m_players) \ PlayerSocks(m_players')

\* the disconnect cleanup of socket s: the player and the registration of s
\* are gone, s is closed, everything else of the table, the registrations and
\* the map is as before, and a match left with fewer than 2 active players
\* is over, which is announced to the players that remain
Cleanup(s) ==
  LET rest == SelectSeq(m_players, LAMBDA p : p.sock # s)
      active == {i \in 1..Len(rest) : rest[i].state \in {READY, PLAYING}}
      over == m_gameState = IN_PROGRESS /\ Cardinality(active) < MIN_PLAYERS
  IN  /\ m_players' = rest
      /\ m_pollfds' = SelectSeq(m_pollfds, LAMBDA f : f # s)
      /\ openFds' = openFds \ {s}
      /\ m_map' = m_map
      /\ m_gameState' = IF over THEN GAME_OVER_STATE ELSE m_gameState
      /\ step'.sent = IF over
                        THEN <<[type |-> GAME_OVER, data |-> <<0, 0>>,
                                to |-> PlayerSocks(rest)]>>
                        ELSE <<>>

\* C21: after every handler the client descriptors registered for polling
\* are exactly the sockets of the player table, each once, and the listening
\* socket is registered once, in front; a PLAYER_DISCONNECT packet and a
\* hangup both remove one client and both leave the server as the same
\* cleanup of that client's socket leaves it.
C21_RegistrationsMatchTable ==
  [][ /\ ClientFds = PlayerSocks(m_players')
      /\ Len(m_pollfds') = 1 + Cardinality(ClientFds)
      /\ Len(m_players') = Cardinality(ClientFds)
      /\ m_pollfds'[1] = m_serverSocket
      /\ m_serverSocket \notin ClientFds
      /\ step'.op \in {"disconnect", "hangup"} =>
           /\ Cardinality(Leavers) = 1
           /\ \A s \in Leavers : Cleanup(s) ]_vars

\* a PLAYER_DISCONNECT packet has just ended a match: one player is left,
\* registered, and was sent GAME_OVER
C21_Witness ==
  /\ step.op = "disconnect"
  /\ m_gameState = GAME_OVER_STATE
  /\ Len(m_players) = 1
  /\ m_pollfds = <<m_serverSocket, m_players[1].sock>>
  /\ GameOverSent # {}

(* -------------------------------- C22 ---------------------------------- *)
\* tags the server acts on
ClientTags == {CONNECT_REQUEST, PLAYER_INPUT, PLAYER_DISCONNECT}

\* a buffer that is undersized or malformed for the server: a PLAYER_INPUT
\* without its flag byte, a CONNECT_REQUEST, or a tag that is not a client's
Malformed(data) ==
  \/ data[1] = PLAYER_INPUT /\ Len(data) < 2
  \/ data[1] = CONNECT_REQUEST
  \/ data[1] \notin ClientTags

Before == step'.log[Len(step'.log)]
After == m_players'[1]

\* the vertical speed the claim gives for the step
NextVy(p) ==
  LET v == p.vy + GRAVITY - (IF p.jet THEN JETPACK_FORCE ELSE 0)
  IN  IF v < -MAX_VELOCITY THEN -MAX_VELOCITY
      ELSE IF v > MAX_VELOCITY THEN MAX_VELOCITY ELSE v

\* C23: applyPhysics sets vy to the clamped vy + GRAVITY - (JETPACK_FORCE
\* when the jetpack is on), moves x by HORIZONTAL_SPEED and y by the new vy,
\* and changes nothing else of the player, of the other players or of the
\* map; the new vy is within MAX_VELOCITY of 0.
C23_PhysicsStep ==
  [][ step'.op = "applyPhysics" =>
        /\ Before = m_players[1]
        /\ After = [Before EXCEPT !.vy = NextVy(Before),
                                  !.x = Before.x + HORIZONTAL_SPEED,
                                  !.y = Before.y + NextVy(Before)]
        /\ After.vy >= -MAX_VELOCITY /\ After.vy <= MAX_VELOCITY
        /\ m_players'[2] = m_players[2]
        /\ Len(m_players') = Len(m_players)
        /\ m_map' = m_map ]_vars

\* a step with the jetpack on was clamped at -MAX_VELOCITY and took the
\* player above y = 0
C23_Witness ==
  /\ step.op = "applyPhysics"
  /\ step.log[1].jet /\ step.log[1].vy = -MAX_VELOCITY
  /\ m_players[1].vy = -MAX_VELOCITY
  /\ m_players[1].y < 0

(* -------------------------------- C24 ---------------------------------- *)
Top == (m_map.height - 1) * Unit

\* C24: checkBounds leaves 0 <= y <= height - 1; when y < 0 or
\* y >= height - 1 it puts y on the bound and sets vy to 0, otherwise it
\* changes nothing; it never changes x. After updatePlayers every player it
\* updated has 0 <= y <= height - 1.
C24_BoundsPostcondition ==
  [][ /\ step'.op \in {"checkBounds", "checkBoundsAgain"} =>
          /\ Before = m_players[1]
          /\ After.y >= 0 /\ After.y <= Top
          /\ After.x = Before.x
          /\ After = IF Before.y < 0 THEN [Before EXCEPT !.y = 0, !.vy = 0]
                     ELSE IF Before.y >= Top THEN [Before EXCEPT !.y = Top, !.vy = 0]
                     ELSE Before
          /\ m_players'[2] = m_players[2]
      /\ step'.op = "updatePlayers" =>
          \A i \in 1..Len(m_players) :
             m_players[i].state = PLAYING =>
               m_players'[i].y >= 0 /\ m_players'[i].y <= Top ]_vars

\* a player that reached y = height - 1 exactly, moving down, was stopped
C24_Witness ==
  /\ step.op = "checkBounds"
  /\ step.log[1].y = Top /\ step.log[1].vy > 0
  /\ m_players[1].y = Top /\ m_players[1].vy = 0
  /\ m_map.height > 1

(* -------------------------------- C25 ---------------------------------- *)
\* C25: checkBounds applied to its own result changes nothing, on maps of
\* every height from 1.
C25_BoundsIdempotent ==
  [][ step'.op = "checkBoundsAgain" => m_players' = m_players ]_vars

\* the second application followed one that had clamped, on a map of one row
C25_Witness ==
  /\ step.op = "checkBoundsAgain"
  /\ m_map.height = 1
  /\ step.log[1].y < 0
  /\ step.log[2].y = 0

(* -------------------------------- C26 ---------------------------------- *)
\* tags the client gives a size
SizedTags ==
  {CONNECT_RESPONSE, MAP_DATA, GAME_START, GAME_STATE_UPDATE, COIN_COLLECTED,
   PLAYER_DEATH, GAME_OVER, PLAYER_INPUT}

\* bytes of a packet up to the end of its length fields
HeaderLen(tag) ==
  IF tag = MAP_DATA THEN 5 ELSE IF tag = GAME_STATE_UPDATE THEN 2 ELSE 1

\* the full size of the packet is at most n: 5 + 2 * width * height for
\* MAP_DATA (compared by division), the size of the claim for the others
FullFits(data, n) ==
  CASE data[1] = MAP_DATA ->
         LET width == data[2] + data[3] * 256
             height == data[4] + data[5] * 256
         IN  n >= 5 /\ (width = 0 \/ height <= ((n - 5) \div 2) \div width)
    [] data[1] = GAME_STATE_UPDATE -> 2 + 10 * data[2] <= n
    [] data[1] \in {CONNECT_RESPONSE, GAME_START, GAME_OVER} -> 3 <= n
    [] data[1] = COIN_COLLECTED -> 6 <= n
    [] OTHER -> 2 <= n

\* the full size, of a packet whose full size is at most the length
FullSize(data) ==
  CASE data[1] = MAP_DATA ->
         5 + 2 * (data[2] + data[3] * 256) * (data[4] + data[5] * 256)
    [] data[1] = GAME_STATE_UPDATE -> 2 + 10 * data[2]
    [] data[1] \in {CONNECT_RESPONSE, GAME_START, GAME_OVER} -> 3
    [] data[1] = COIN_COLLECTED -> 6
    [] OTHER -> 2

\* C26: getPacketSize never returns more than the available length; for a
\* tag with a size it returns the full size given by the tag and the length
\* fields when that many bytes are available, and 0 exactly when fewer are.
C26_SizeContract ==
  step.op = "getPacketSize" =>
    LET call == step.log[1]
    IN  /\ call.size <= call.maxSize
        /\ call.maxSize = 0 => call.size = 0
        /\ (call.maxSize > 0 /\ call.data[1] \in SizedTags) =>
              call.size = IF call.maxSize >= HeaderLen(call.data[1])
                             /\ FullFits(call.data, call.maxSize)
                          THEN FullSize(call.data) ELSE 0

(* -------------------------------- C27 ---------------------------------- *)
\* tags of the packets the server writes
ServerTags ==
  {CONNECT_RESPONSE, MAP_DATA, GAME_START, GAME_STATE_UPDATE, COIN_COLLECTED,
   PLAYER_DEATH, GAME_OVER}

ServerEncoded(script) == \A i \in 1..Len(script) : script[i][1] \in ServerTags

\* C27: whatever the chunks, the packets given to processPacket are the
\* packets the server wrote, in order, each as soon as its last byte is
\* read; the bytes given, kept and still queued are the bytes written, each
\* once.
C27_ChunkingInvisible ==
  ServerEncoded(client.script) =>
    /\ Len(client.handed) <= Len(client.script)
    /\ client.handed = SubSeq(client.script, 1, Len(client.handed))
    /\ Flatten(client.handed) \o client.accumulatedBuffer \o client.wire
         = Flatten(client.script)
    /\ IF Len(client.handed) = Len(client.script)
         THEN client.accumulatedBuffer = <<>>
         ELSE Len(client.accumulatedBuffer)
                < Len(client.script[Len(client.handed) + 1])

\* two packets were given and the first bytes of the third are kept
C27_Witness ==
  /\ step.op = "networkLoop"
  /\ ServerEncoded(client.script)
  /\ Len(client.handed) = 2
  /\ Len(client.accumulatedBuffer) = 2
  /\ client.wire # <<>>

(* -------------------------------- C28 ---------------------------------- *)
\* the first unconsumed byte is a tag without a size
Stalled(buffer) == buffer # <<>> /\ buffer[1] \notin SizedTags

\* packets of the script before its first packet without a size
BeforeUnsized(script) ==
  Cardinality({i \in 1..Len(script) :
                 \A j \in 1..i : script[j][1] \in SizedTags})

\* C28: when the buffer begins with a tag without a size, getPacketSize
\* returns 0 and a pass of the loop only appends what it read: nothing is
\* given to processPacket, nothing of the client changes, and the packets
\* behind that byte are never given.
C28_UnsizedTagStalls ==
  [][ /\ Len(client'.handed) <= BeforeUnsized(client'.script)
      /\ Stalled(client'.accumulatedBuffer) =>
            \A build \in Builds :
               getPacketSize(client'.accumulatedBuffer,
                             Len(client'.accumulatedBuffer), build) = 0
      /\ (step'.op = "networkLoop" /\ Stalled(client.accumulatedBuffer)) =>
            \E k \in 1..Len(client.wire) :
               client' = [client EXCEPT
                            !.wire = SubSeq(client.wire, k + 1, Len(client.wire)),
                            !.accumulatedBuffer = @ \o SubSeq(client.wire, 1, k)]
    ]_vars

\* a whole snapshot is kept behind a PLAYER_DISCONNECT tag
C28_Witness ==
  /\ step.op = "networkLoop"
  /\ client.accumulatedBuffer # <<>>
  /\ client.accumulatedBuffer[1] = PLAYER_DISCONNECT
  /\ Len(client.accumulatedBuffer) = 23
  /\ client.wire = <<>>
  /\ Len(client.handed) = 1

(* -------------------------------- C29 ---------------------------------- *)
\* 0.01 world units
Hundredth == Unit \div 100

Near(a, b) == a - b <= Hundredth /\ b - a <= Hundredth

\* the client's copy c reproduces the server's player p
Reproduces(c, p) ==
  /\ c.id = p.id
  /\ c.state = p.state
  /\ c.score = p.score
  /\ c.jet = p.jet
  /\ Near(c.x, p.x)
  /\ Near(c.y, p.y)

\* the packet given to processPacket last is a GAME_STATE_UPDATE
SnapshotDecoded ==
  /\ client.handed # <<>>
  /\ client.handed[Len(client.handed)][1] = GAME_STATE_UPDATE

\* C29: once the client has decoded the GAME_STATE_UPDATE the server encoded
\* from its table, its player list, and the copy of it the display holds,
\* has for every player of the table a player of that id with the same
\* state, score and jetpack flag and with coordinates within 0.01.
C29_RoundTrip ==
  SnapshotDecoded =>
    /\ client.gameData.m_players = client.m_players
    /\ \A i \in 1..Len(m_players) :
          \E j \in 1..Len(client.m_players) :
             Reproduces(client.m_players[j], m_players[i])

(* -------------------------------- C30 ---------------------------------- *)
\* the thread is in the body of a member function of GameData
InBody(t) == client.calls[t].pc >= 1

\* C30: a thread in the body of a member function of GameData holds the
\* mutex, so the render thread and the network thread are never both in one,
\* and the copy a getter returns is the field as the last completed member
\* function left it.
C30_SnapshotGuarded ==
  /\ \A t \in Threads : InBody(t) => client.m_dataMutex = t
  /\ ~(InBody("render") /\ InBody("network"))
  /\ \A t \in Threads :
        (client.calls[t].fn \in Getters /\ client.calls[t].pc = 2) =>
          client.calls[t].ret = <<FieldOf(step.log[1], client.calls[t].fn)>>

\* the network thread is between two statements of updateMap and the render
\* thread waits at the lock of getCoinStates
C30_Witness ==
  /\ client.calls["network"].fn = "updateMap"
  /\ client.calls["network"].pc = 2
  /\ client.m_dataMutex = "network"
  /\ client.calls["render"].fn = "getCoinStates"
  /\ client.calls["render"].pc = 0
  /\ client.gameData.m_map # step.log[1].m_map

(* -------------------------------- C31 ---------------------------------- *)
\* the step wrote a CONNECT_RESPONSE
ResponseSent ==
  \E i \in 1..Len(step'.sent) : step'.sent[i].type = CONNECT_RESPONSE

\* C31: a client enters the player table, and a CONNECT_RESPONSE is
\* written, only in a step that handles bytes received from a client (its
\* CONNECT_REQUEST), never in the step that accepts the connection.
C31_ResponseAfterRequest ==
  [][ (ResponseSent \/ PlayerSocks(m_players') \ PlayerSocks(m_players) # {})
        => step'.op = "data" ]_vars


(* -------------------------------- C32 ---------------------------------- *)
\* the step is a tick that runs updatePlayers and checkCollisions: the match
\* is InProgress and the tick is not the promotion of the Ready players
PhysicsRuns ==
  /\ step'.op = "tick"
  /\ m_gameState = IN_PROGRESS
  /\ ~ /\ \A i \in 1..Len(m_players) : m_players[i].state \in {PLAYING, READY}
       /\ \A i \in 1..Len(m_players) : m_players[i].state # PLAYING

\* the packet types that are broadcast to the table during a match
MatchBroadcasts ==
  {GAME_START, GAME_STATE_UPDATE, COIN_COLLECTED, PLAYER_DEATH, GAME_OVER}

\* C32: a tick that runs the physics writes, in this order, its
\* COIN_COLLECTED and PLAYER_DEATH packets (the ones of its collision
\* passes), one GAME_STATE_UPDATE that encodes the table after physics and
\* collisions, and GAME_OVER last if and only if the match ends; GAME_OVER
\* goes to every socket of the table, all still open, and the reset closes
\* them in the same step; once a match is over no step broadcasts for it.
C32_TickBroadcastOrder ==
  [][ /\ PhysicsRuns =>
           LET sent == step'.sent
               n == Len(sent)
               g == IF step'.reset THEN n - 1 ELSE n
           IN  /\ g >= 1
               /\ \A i \in 1..(g - 1) : sent[i].type \in {COIN_COLLECTED, PLAYER_DEATH}
               /\ Cardinality({k \in 1..Len(step'.log) : step'.log[k].pkts # <<>>}) = g - 1
               /\ sent[g] = broadcastGameState(AfterTick)
               /\ step'.reset =>
                    /\ sent[n].type = GAME_OVER
                    /\ sent[n].to = PlayerSocks(step'.ended)
                    /\ sent[n].to \subseteq openFds
                    /\ sent[n].to \cap openFds' = {}
                    /\ m_players' = <<>>
                    /\ m_gameState' # IN_PROGRESS
      /\ m_gameState = GAME_OVER_STATE =>
           \A i \in 1..Len(step'.sent) : step'.sent[i].type \notin MatchBroadcasts ]_vars

\* a tick has just notified a pickup, then the state, then the end of the
\* match, to both players
C32_Witness ==
  /\ step.op = "tick"
  /\ step.reset
  /\ Len(step.sent) >= 3
  /\ step.sent[1].type \in {COIN_COLLECTED, PLAYER_DEATH}
  /\ step.sent[Len(step.sent) - 1].type = GAME_STATE_UPDATE
  /\ step.sent[Len(step.sent)].type = GAME_OVER
  /\ Cardinality(step.sent[Len(step.sent)].to) >= MIN_PLAYERS


(* -------------------------------- C33 ---------------------------------- *)
\* the whole server on the map whose track can be run to the finish line,
\* with a loop that keeps running: every iteration of GameServer::start ends
\* with updateGameState
InitTrack == Init /\ mapFile = MapTwoCoins

LiveSpec == InitTrack /\ [][Next]_vars /\ WF_vars(UpdateGameState)

\* C33: while ticks keep occurring, a match that is InProgress eventually
\* is not InProgress any more.
C33_MatchTerminates ==
  (m_gameState = IN_PROGRESS) ~> (m_gameState # IN_PROGRESS)

\* a match has just run its whole track with no death and no disconnect:
\* the tick found both players Finished, wrote GAME_OVER and reset
C33_Witness ==
  /\ step.op = "tick"
  /\ step.reset
  /\ m_gameState = WAITING_FOR_PLAYERS
  /\ Len(step.ended) = MIN_PLAYERS
  /\ \A i \in 1..Len(step.ended) :
        step.ended[i].state = FINISHED /\ step.ended[i].x >= m_map.width * Unit
  /\ step.sent[Len(step.sent)].type = GAME_OVER


(* -------------------------------- C34 ---------------------------------- *)
\* the packets a buffer read from a client is made of: PLAYER_DISCONNECT is
\* its tag alone, the other packets are a tag and one byte
RECURSIVE ClientFrames(_)
ClientFrames(data) ==
  IF data = <<>> THEN <<>>
  ELSE IF data[1] = PLAYER_DISCONNECT \/ Len(data) = 1
    THEN <<SubSeq(data, 1, 1)>> \o ClientFrames(SubSeq(data, 2, Len(data)))
  ELSE <<SubSeq(data, 1, 2)>> \o ClientFrames(SubSeq(data, 3, Len(data)))

\* the buffer of the step holds several packets, each a PLAYER_INPUT with
\* its flag or a PLAYER_DISCONNECT
BackToBack ==
  LET frames == ClientFrames(Packet.data)
  IN  /\ Len(frames) >= 2
      /\ \A k \in 1..Len(frames) :
            \/ frames[k] = <<PLAYER_DISCONNECT>>
            \/ Len(frames[k]) = 2 /\ frames[k][1] = PLAYER_INPUT

\* C34: when one read from a Playing player returns several packets back to
\* back, the player's jetpack flag afterwards is the flag of the last
\* PLAYER_INPUT of the buffer, and a PLAYER_DISCONNECT at its end removes the
\* player from the table.
C34_EveryPacketActedOn ==
  [][ (step'.op = "processPacket" /\ BackToBack) =>
        LET frames == ClientFrames(Packet.data)
            last == frames[Len(frames)]
        IN  \A i \in PlayingSender :
              IF last = <<PLAYER_DISCONNECT>>
              THEN Packet.sock \notin PlayerSocks(m_players')
              ELSE \E j \in 1..Len(m_players') :
                     /\ m_players'[j].sock = Packet.sock
                     /\ m_players'[j].jet = (last[2] # 0) ]_vars


(* -------------------------------- C35 ---------------------------------- *)
\* C35: a GAME_OVER written by checkGameEnd with the has-winner flag set
\* names a player of the table the match ended on whose state shows it
\* played the match (Playing, Finished or Dead), never one that joined
\* during the match and is still Connected.
C35_WinnerPlayed ==
  (step.op = "tick" /\ MatchEnded /\ GameOverSent # {} /\ EndPacket.data[1] = 1) =>
    /\ \E i \in 1..Len(step.ended) :
          /\ step.ended[i].id = EndPacket.data[2]
          /\ step.ended[i].state \in {PLAYING, FINISHED, DEAD}
    /\ \A i \in 1..Len(step.ended) :
          step.ended[i].state = CONNECTED => step.ended[i].id # EndPacket.data[2]


(* -------------------------------- C36 ---------------------------------- *)
\* the whole server started on a map file of one, two or three rows
InitRows ==
  /\ mapFile \in MapFiles \cup {MapOneRow, MapTwoRows}
  /\ loadMap(mapFile, EmptyMap).ok
  /\ m_map = loadMap(mapFile, EmptyMap).map
  /\ m_players = <<>>
  /\ m_pollfds = <<m_serverSocket>>
  /\ openFds = {m_serverSocket}
  /\ m_gameState = WAITING_FOR_PLAYERS
  /\ cursor = 1
  /\ fresh = {}
  /\ inputsUsed = 0
  /\ extra = 0
  /\ credited = NoCredit
  /\ issued = {}
  /\ client = ClientStart
  /\ step = Did("init", <<>>, FALSE, <<>>, <<>>)

RowsSpec == InitRows /\ [][Next]_vars

\* the state byte and the y field (in hundredths) of the k-th player of a
\* GAME_STATE_UPDATE payload
StateInUpdate(data, k) == data[10 * (k - 1) + 3]
YInUpdate(data, k) == S16(data[10 * (k - 1) + 6], data[10 * (k - 1) + 7])

\* C36: in every GAME_STATE_UPDATE written, the y of each Ready or Playing
\* player is inside the map, 0 <= y <= height - 1.
C36_BroadcastInsideMap ==
  \A n \in 1..Len(step.sent) :
    step.sent[n].type = GAME_STATE_UPDATE =>
      \A k \in 1..step.sent[n].data[1] :
        StateInUpdate(step.sent[n].data, k) \in {READY, PLAYING} =>
          /\ YInUpdate(step.sent[n].data, k) >= 0
          /\ YInUpdate(step.sent[n].data, k) <= (m_map.height - 1) * 100


(* -------------------------------- C37 ---------------------------------- *)
\* the players of a table that are Playing
PlayingIn(players) == {i \in 1..Len(players) : players[i].state = PLAYING}

\* C37: after every tick all Playing players have the same x, and a tick
\* that makes a player Finished leaves no player Playing.
C37_SameColumn ==
  [][ step'.op = "tick" =>
        LET after == AfterTick
        IN  /\ \A i, j \in PlayingIn(after) : after[i].x = after[j].x
            /\ (\E i \in 1..Len(after) : after[i].state = FINISHED)
                 => PlayingIn(after) = {} ]_vars

\* a physics tick has left two Playing players side by side at different
\* heights, one of them with the jetpack on
C37_Witness ==
  /\ step.op = "tick"
  /\ \E i, j \in PlayingIn(m_players) :
        /\ i # j
        /\ m_players[i].x = m_players[j].x
        /\ m_players[i].x > 1 * Unit
        /\ m_players[i].y # m_players[j].y
        /\ m_players[i].jet /\ ~m_players[j].jet


(* -------------------------------- C38 ---------------------------------- *)
\* the number of Coin tiles of the map as loaded from the file
CoinTiles ==
  LET map == loadMap(mapFile, EmptyMap).map
  IN  Cardinality({c \in (0..(map.width - 1)) \X (0..(map.height - 1)) :
                     map.tiles[c[2]][c[1]] = COIN})

\* C38: from one step to the next a player's score stays or rises by 1; it
\* rises only in a tick, by a collision pass of that player on a Coin tile;
\* it never exceeds the number of Coin tiles of the map file; a player that
\* enters the table has score 0.
C38_ScoreBounds ==
  [][ LET after == AfterTick
      IN  /\ \A i \in 1..Len(m_players), j \in 1..Len(after) :
                after[j].sock = m_players[i].sock =>
                  /\ after[j].score \in {m_players[i].score, m_players[i].score + 1}
                  /\ after[j].score # m_players[i].score =>
                       /\ step'.op = "tick"
                       /\ \E k \in 1..Len(step'.log) :
                             /\ step'.log[k].sock = after[j].sock
                             /\ step'.log[k].tileFrom = COIN
                             /\ step'.log[k].scoreTo = step'.log[k].scoreFrom + 1
          /\ \A j \in 1..Len(after) :
                /\ after[j].score <= CoinTiles
                /\ after[j].sock \notin PlayerSocks(m_players) => after[j].score = 0 ]_vars

\* a player has collected every coin of the map file: its score is the
\* number of Coin tiles, which is at least 2
C38_Witness ==
  /\ step.op = "tick"
  /\ CoinTiles >= 2
  /\ \E i \in 1..Len(m_players) :
        m_players[i].state = PLAYING /\ m_players[i].score = CoinTiles


(* -------------------------------- C39 ---------------------------------- *)
(* The server together with the client that connected last: what the server
   writes to that client's socket is queued on the client's wire, and the
   client's network thread reads it.  The record of a step keeps, in log,
   the server's map as it was when the last packet for that client was
   written. *)
\* the bytes still queued on the client's wire when the server's next tick
\* writes: the network thread reads in every pass of its loop
MaxBacklog == 0

\* the bytes a handler wrote to one socket, in the order of the writes
RECURSIVE WrittenTo(_, _)
WrittenTo(sent, sock) ==
  IF sent = <<>> THEN <<>>
  ELSE (IF sock \in Head(sent).to THEN serialize(Head(sent)) ELSE <<>>)
       \o WrittenTo(Tail(sent), sock)

\* the descriptor of the client that connected last
Followed(players) ==
  CHOOSE f \in PlayerSocks(players) : \A g \in PlayerSocks(players) : g <= f

\* a started server, no client yet
InitFollow ==
  /\ Init
  /\ mapFile = MapTwoCoins

\* acceptNewClient, and the client that has just connected
FollowAccept ==
  /\ m_gameState # WAITING_FOR_PLAYERS => extra < MaxExtra
  /\ extra' = IF m_gameState # WAITING_FOR_PLAYERS THEN extra + 1 ELSE extra
  /\ LET clientSocket == LowestFree(openFds)
         newPlayerId == Len(m_players) + 1
     IN  \E k \in 1..(Len(m_players) + 1) :
           LET players1 == InsertAt(m_players, k, NewPlayer(clientSocket, newPlayerId))
               start == checkGameStart(players1, m_map, m_gameState)
               sent == <<sendConnectResponse(players1, clientSocket, newPlayerId),
                         sendMapData(m_map, clientSocket)>> \o start.sent
           IN  /\ m_pollfds' = Append(m_pollfds, clientSocket)
               /\ openFds' = openFds \cup {clientSocket}
               /\ m_players' = start.players
               /\ m_gameState' = start.gameState
               /\ client' = [ClientStart EXCEPT !.wire = WrittenTo(sent, clientSocket)]
               /\ step' = Did("accept", sent, FALSE, <<m_map>>, <<>>)
  /\ UNCHANGED <<mapFile, m_map, cursor, fresh, inputsUsed, credited, issued>>

\* handleClientData for a PLAYER_INPUT of a player
FollowInput ==
  /\ inputsUsed < MaxInputs
  /\ \E clientSocket \in PlayerSocks(m_players), flag \in {0, 1} :
        \E r \in {processPacket(m_players, m_pollfds, m_gameState, clientSocket,
                                <<PLAYER_INPUT, flag>>)} :
          /\ r.players # m_players
          /\ m_players' = r.players
          /\ step' = Did("data", r.sent, FALSE, step.log, <<>>)
  /\ inputsUsed' = inputsUsed + 1
  /\ UNCHANGED <<client, mapFile, m_map, m_pollfds, openFds, m_gameState, cursor,
                 fresh, extra, credited, issued>>

\* updateGameState, and what it wrote to the client
FollowTick ==
  /\ Len(client.wire) <= MaxBacklog
  /\ \E r \in {updateGameState(m_players, m_pollfds, m_map, m_gameState, credited,
                               extra, mapFile)} :
        \E written \in {IF m_players = <<>> THEN <<>>
                        ELSE WrittenTo(r.did.sent, Followed(m_players))} :
          /\ r.returns
          /\ m_players' = r.players
          /\ m_pollfds' = r.pollfds
          /\ m_map' = r.map
          /\ m_gameState' = r.gameState
          /\ credited' = r.credited
          /\ extra' = r.extra
          /\ openFds' = openFds \ r.closed
          /\ client' = [client EXCEPT !.wire = @ \o written]
          /\ step' = [r.did EXCEPT !.log =
                        IF written = <<>> THEN step.log
                        ELSE IF r.did.reset
                          THEN <<checkCollisions(updatePlayers(m_players, m_map),
                                                 m_map, credited).map>>
                        ELSE <<r.map>>]
  /\ UNCHANGED <<mapFile, cursor, fresh, inputsUsed, issued>>

\* one pass of the loop of networkLoop in which recv returns bytes
FollowRead ==
  /\ client.wire # <<>>
  /\ \E k \in {5, Len(client.wire)}, build \in Builds :
        /\ k <= Len(client.wire)
        /\ \E r \in {processBuffer(client, client.accumulatedBuffer
                                              \o SubSeq(client.wire, 1, k), 0, build)} :
              client' = [r.c EXCEPT
                           !.wire = SubSeq(client.wire, k + 1, Len(client.wire)),
                           !.accumulatedBuffer =
                              eraseProcessed(client.accumulatedBuffer
                                               \o SubSeq(client.wire, 1, k),
                                             r.processedBytes)]
        /\ step' = Did("networkLoop", <<>>, FALSE, step.log, <<>>)
  /\ UNCHANGED <<mapFile, m_map, m_players, m_pollfds, openFds, m_gameState,
                 cursor, fresh, inputsUsed, extra, credited, issued>>

FollowSteps == FollowAccept \/ FollowInput \/ FollowTick \/ FollowRead

FollowSpec == InitFollow /\ [][FollowSteps]_vars

\* the client has processed everything the server wrote to it so far
CaughtUp ==
  /\ step.log # <<>>
  /\ client.wire = <<>>
  /\ client.accumulatedBuffer = <<>>

\* C39: once the client has processed MAP_DATA and every COIN_COLLECTED
\* written to it so far, its coin-state grid and its tile grid are the
\* server's grids as they were when the last of these packets was written.
C39_GridsFollow ==
  CaughtUp =>
    /\ client.gameData.m_coinStates = step.log[1].coinStates
    /\ client.gameData.m_map.tiles = step.log[1].tiles
    /\ client.gameData.m_map.width = step.log[1].width
    /\ client.gameData.m_map.height = step.log[1].height

\* the client has processed the COIN_COLLECTED of a coin that both players
\* have now collected: the cell is CollectedByBoth and its tile Empty
C39_Witness ==
  /\ CaughtUp
  /\ \E c \in Cells :
        /\ FileTiles[c[2]][c[1]] = COIN
        /\ client.gameData.m_coinStates[c[2]][c[1]] = COLLECTED_BOTH
        /\ client.gameData.m_map.tiles[c[2]][c[1]] = EMPTY


(* -------------------------------- C40 ---------------------------------- *)
(* The fields the two threads share outside GameData: GameDisplay's
   m_jetpackActive (a bool) and NetworkClient's m_localPlayerId (an int).
   A thread is at pc 1 when its next step is the access, at pc 2 when the
   access is done. *)
\* the field a function accesses, and whether it writes it; none of these
\* functions takes a lock and neither field is atomic
Access(fn) ==
  CASE fn = "processEvents" -> [field |-> "m_jetpackActive", write |-> TRUE]
    [] fn = "sendPlayerInput" -> [field |-> "m_jetpackActive", write |-> FALSE]
    [] fn = "handleConnectResponse" -> [field |-> "m_localPlayerId", write |-> TRUE]
    [] fn = "start" -> [field |-> "m_localPlayerId", write |-> FALSE]
    [] OTHER -> [field |-> "", write |-> FALSE]

\* the thread's next step is an access of a shared field
AtAccess(t) == Access(client.calls[t].fn).field # "" /\ client.calls[t].pc = 1

\* the other thread
Other(t) == CHOOSE u \in Threads : u # t

\* the accesses a thread can reach next: the main thread polls m_localPlayerId
\* in start() and handles events in run(); the network thread calls
\* sendPlayerInput in its loop and handles the CONNECT_RESPONSE
NextAccess(t, c) ==
  IF t = "render" THEN
    IF c.calls[t] = Outside \/ (c.calls[t].fn = "start" /\ c.calls[t].ret = <<-1>>)
      THEN {<<"start", <<>>>>}
    ELSE IF c.calls[t].fn \in {"run", "processEvents"} /\ c.calls[t].pc # 1
      THEN {<<"processEvents", <<b>>>> : b \in BOOLEAN}
    ELSE {}
  ELSE
    IF c.calls[t] # Outside THEN {}
    ELSE {<<"sendPlayerInput", <<>>>>}
         \cup (IF c.m_localPlayerId = -1
                 THEN {<<"handleConnectResponse", <<id>>>> : id \in 1..MIN_PLAYERS}
                 ELSE {})

\* a thread arrives at an access
ReachAccess ==
  /\ \E t \in Threads :
        \E call \in NextAccess(t, client) :
          client' = [client EXCEPT !.calls[t] =
                       [fn |-> call[1], arg |-> call[2], pc |-> 1, ret |-> <<>>]]
  /\ step' = [step EXCEPT !.op = "reach", !.sent = <<>>]
  /\ ServerUnchanged

\* the values a read of the field can give: the field's, or, while the other
\* thread is writing it, the one being written
ReadValues(t, c) ==
  LET field == Access(c.calls[t].fn).field
      held == IF field = "m_jetpackActive" THEN c.m_jetpackActive ELSE c.m_localPlayerId
      u == Other(t)
  IN  {held} \cup (IF c.calls[u].pc = 1 /\ Access(c.calls[u].fn) = [field |-> field, write |-> TRUE]
                     THEN {c.calls[u].arg[1]} ELSE {})

\* the access itself: a plain load or store
AccessShared ==
  /\ \E t \in Threads :
        /\ AtAccess(t)
        /\ LET call == client.calls[t]
           IN  IF Access(call.fn).write
                 THEN client' =
                        IF call.fn = "processEvents"
                          THEN [client EXCEPT !.m_jetpackActive = call.arg[1],
                                              !.calls[t].pc = 2]
                          ELSE [client EXCEPT !.m_localPlayerId = call.arg[1],
                                              !.m_running = TRUE,
                                              !.calls[t].pc = 2]
                 ELSE \E v \in ReadValues(t, client) :
                        client' = [client EXCEPT !.calls[t].pc = 2,
                                                 !.calls[t].ret = <<v>>]
  /\ step' = [step EXCEPT !.op = "access", !.sent = <<>>]
  /\ ServerUnchanged

\* what follows the access: sendPlayerInput sends the flag it read, start()
\* leaves its loop with the id it read and enters run(), the handlers return
PassAccess ==
  /\ \E t \in Threads :
        LET call == client.calls[t]
        IN  /\ call.pc = 2
            /\ call.fn \in {"sendPlayerInput", "handleConnectResponse", "processEvents"}
                 \/ (call.fn = "start" /\ call.ret # <<-1>>)
            /\ client' =
                 IF call.fn = "start"
                   THEN [client EXCEPT
                           !.gameData.m_localPlayerId = call.ret[1],
                           !.calls[t] = [fn |-> "run", arg |-> <<>>, pc |-> 0, ret |-> <<>>]]
                 ELSE IF call.fn = "processEvents"
                   THEN [client EXCEPT
                           !.calls[t] = [fn |-> "run", arg |-> <<>>, pc |-> 0, ret |-> <<>>]]
                 ELSE [client EXCEPT !.calls[t] = Outside]
            /\ step' = [step EXCEPT
                          !.op = "pass",
                          !.sent = IF call.fn = "sendPlayerInput"
                                     THEN <<[type |-> PLAYER_INPUT,
                                             data |-> <<IF call.ret[1] THEN 1 ELSE 0>>,
                                             to |-> {"server"}]>>
                                   ELSE <<>>]
  /\ ServerUnchanged

SharedSteps == ReachAccess \/ AccessShared \/ PassAccess

SharedSpec == InitGameData /\ [][SharedSteps]_vars

\* C40: the two threads are never both about to access the same shared
\* field, one of them writing it, with no lock held and no atomic.
C40_NoUnguardedRace ==
  ~ \E t \in Threads :
      /\ AtAccess(t) /\ AtAccess(Other(t))
      /\ Access(client.calls[t].fn).field = Access(client.calls[Other(t)].fn).field
      /\ Access(client.calls[t].fn).write
      /\ client.m_dataMutex = "free"

====
